---- MODULE Spec2Model ----
(***************************************************************************)
(* A model of cashweb-rs: hierarchical deterministic key derivation        *)
(* (cashweb-bitcoin/src/bip32.rs), stamp verification and construction     *)
(* (cashweb-relay/src/stamp.rs), the relay message pipeline                *)
(* (cashweb-relay/src/lib.rs), the transaction codec (cashweb-bitcoin),    *)
(* the payment wallet (cashweb-payments/src/wallet.rs) and the keyserver   *)
(* crawl (cashweb-keyserver-client/src/manager).                           *)
(*                                                                         *)
(* The secp256k1 group is scaled down to the cyclic group of residues      *)
(* modulo CurveOrder: a point is a residue, 0 is the point at infinity,    *)
(* and a 32-byte string is a number of Bytes32, of which 0 and the values  *)
(* from CurveOrder upwards are not valid private scalars.  The hash        *)
(* functions are fixed arithmetic mixes over these small domains.          *)
(***************************************************************************)
EXTENDS Integers, Sequences, FiniteSets, TLC

VARIABLES call, msg, res, wallet, crawl

vars == <<call, msg, res, wallet, crawl>>

(***************************************************************************)
(* Bounds of the model.                                                    *)
(***************************************************************************)
CurveOrder == 7

MaxIndex == 1

MaxPathLen == 2

(***************************************************************************)
(* Results: Ok(v), Err(e) and a panic (an unwrap on an Err/None value).    *)
(***************************************************************************)
Ok(v) == [tag |-> "Ok", val |-> v]

Err(e) == [tag |-> "Err", err |-> e]

Panic(where) == [tag |-> "Panic", at |-> where]

IsOk(r) == r.tag = "Ok"

IsErr(r) == r.tag = "Err"

IsPanic(r) == r.tag = "Panic"

\* `let x = v;': v is evaluated once and F applied to its value.
Bind(v, F(_)) == CHOOSE r \in {F(x) : x \in {v}} : TRUE

\* `let x = r?;': on Ok(x) continue with F(x), otherwise return r (an Err, or a
\* panic unwinding).
Try(r, F(_)) == Bind(r, LAMBDA x : IF IsOk(x) THEN F(x.val) ELSE x)

\* `r.map_err(E)': E applied to the error of an Err.
MapErr(r, E(_)) == Bind(r, LAMBDA x : IF IsErr(x) THEN Err(E(x.err)) ELSE x)

\* `r.unwrap()': an Err becomes a panic at `where'.
Unwrap(r, where) == Bind(r, LAMBDA x : IF IsErr(x) THEN Panic(where) ELSE x)

(***************************************************************************)
(* secp256k1 primitives, as the code calls them.                           *)
(***************************************************************************)
Bytes32 == 0..(CurveOrder + 1)

Points == 1..(CurveOrder - 1)

PrivateKeys == 1..(CurveOrder - 1)

Generator == CurveOrder - 1

\* PrivateKey::from_slice: Ok for a scalar in [1, n), Err(InvalidSecretKey) otherwise.
PrivateKeyFromSlice(b) ==
    IF b >= 1 /\ b < CurveOrder THEN Ok(b) ELSE Err("InvalidSecretKey")

\* PublicKey::from_secret_key: k*G.
PublicKeyFromSecretKey(k) == (k * Generator) % CurveOrder

\* PublicKey::serialize: the compressed form, a parity prefix and a coordinate.
Serialize(P) == <<2 + (P % 2), P \div 2>>

\* PublicKey::from_slice: the inverse of serialize, Err on anything else.
PublicKeyFromSlice(raw) ==
    IF /\ Len(raw) = 2
       /\ raw[1] \in {2, 3}
       /\ (2 * raw[2] + (raw[1] - 2)) \in Points
    THEN Ok(2 * raw[2] + (raw[1] - 2))
    ELSE Err("InvalidPublicKey")

\* A point addition that does not report the point at infinity.
CombineUnchecked(P, Q) == Ok((P + Q) % CurveOrder)

\* PublicKey::combine: point addition, Err when the sum is the point at infinity.
Combine(P, Q) ==
    IF (P + Q) % CurveOrder = 0
    THEN Err("InvalidPublicKeySum")
    ELSE Ok((P + Q) % CurveOrder)

\* A tweak-add that adds the tweak itself to the point instead of t*G.
AddExpAssignNoGenerator(P, t) ==
    IF t >= CurveOrder \/ (P + t) % CurveOrder = 0
    THEN Err("InvalidTweak")
    ELSE Ok((P + t) % CurveOrder)

\* PublicKey::add_exp_assign: P + t*G, Err(InvalidTweak) when t is not below the
\* order or the sum is the point at infinity.
AddExpAssign(P, t) ==
    IF t >= CurveOrder \/ (P + t * Generator) % CurveOrder = 0
    THEN Err("InvalidTweak")
    ELSE Ok((P + t * Generator) % CurveOrder)

\* PublicKey::mul_assign: s*P, Err(InvalidTweak) when s is not in [1, n) or the
\* product is the point at infinity.
MulAssign(P, s) ==
    IF s < 1 \/ s >= CurveOrder \/ (P * s) % CurveOrder = 0
    THEN Err("InvalidTweak")
    ELSE Ok((P * s) % CurveOrder)

\* SecretKey::add_assign: (k + t) mod n, Err(InvalidTweak) when t is not below the
\* order or the sum is zero.
AddAssign(k, t) ==
    IF t >= CurveOrder \/ (k + t) % CurveOrder = 0
    THEN Err("InvalidTweak")
    ELSE Ok((k + t) % CurveOrder)

(***************************************************************************)
(* Hash functions: a byte string is a sequence of numbers, the digest a    *)
(* number of Bytes32.                                                      *)
(***************************************************************************)
RECURSIVE Mix(_, _)
Mix(h, data) ==
    IF data = <<>> THEN h
    ELSE Bind((h * 31 + Head(data) + 7) % 1009, LAMBDA next : Mix(next, Tail(data)))

\* ring::digest::digest(&SHA256, data)
Sha256(data) == Mix(11, data) % (CurveOrder + 2)

\* ring::hmac::sign with HMAC_SHA256
HmacSha256(key, data) ==
    Bind(Mix(13, key), LAMBDA keyed : Mix(keyed, data) % (CurveOrder + 2))

\* ring::hmac::sign with HMAC_SHA512: 64 bytes, split into I_L and I_R.  As on the
\* real curve most values of I_L are valid scalars; one mix in eight is spread
\* over all of Bytes32, the invalid scalars included.
HmacSha512(key, data) ==
    Bind(Mix(Mix(17, key), data), LAMBDA m :
    [il |-> IF m % 8 = 0 THEN (m \div 8) % (CurveOrder + 2)
            ELSE 1 + ((m \div 8) % (CurveOrder - 1)),
     ir |-> Mix(Mix(19, key), data) % (CurveOrder + 2)])

\* Ripemd160::digest(SHA256(data)): the 20-byte address hash.  Its first two bytes
\* carry the whole mix of the data, so that serialized keys do not collide.
Hash160(data) ==
    Bind(Mix(23, data), LAMBDA m :
    [i \in 1..20 |-> IF i = 1 THEN m \div 256
                     ELSE IF i = 2 THEN m % 256
                     ELSE Mix(m, <<i>>) % 256])

\* u32::to_be_bytes
ToBeBytes(index) == <<index \div 256, index % 256>>

(***************************************************************************)
(* bip32.rs: ChildNumber, ExtendedPublicKey, ExtendedPrivateKey.           *)
(***************************************************************************)
\* 1 << 31 of a u32 index, with the index word scaled down to 16 bits (ToBeBytes
\* writes two bytes): the indices below it are the valid child indices.
HardenedBit == 32768

Normal(i) == [kind |-> "Normal", index |-> i]

Hardened(i) == [kind |-> "Hardened", index |-> i]

\* ChildNumber::from_normal_index
FromNormalIndex(index) ==
    IF index < HardenedBit THEN Ok(Normal(index))
    ELSE Err([e |-> "IndexError", index |-> index])

\* ChildNumber::from_hardened_index
FromHardenedIndex(index) ==
    IF index < HardenedBit THEN Ok(Hardened(index))
    ELSE Err([e |-> "IndexError", index |-> index])

\* A conversion that marks the number as hardened and keeps its top bit.
FromU32KeepBit(number) ==
    IF number >= HardenedBit THEN Hardened(number) ELSE Normal(number)

\* From<u32> for ChildNumber: the top bit set means hardened, and is removed.
FromU32(number) ==
    IF number >= HardenedBit THEN Hardened(number - HardenedBit) ELSE Normal(number)

\* ExtendedPublicKey::new_master
NewMasterPublic(public_key, chain_code) ==
    [public_key |-> public_key, chain_code |-> chain_code]

\* ExtendedPrivateKey::new_master
NewMasterPrivate(private_key, chain_code) ==
    [private_key |-> private_key, chain_code |-> chain_code]

\* A derive_public_child that treats a hardened index as a normal one.
DerivePublicChildAnyKind(xpub, child_number) ==
    Bind(HmacSha512(<<xpub.chain_code>>,
                    Serialize(xpub.public_key) \o ToBeBytes(child_number.index)),
         LAMBDA hmac_result :
    Try(Unwrap(PrivateKeyFromSlice(hmac_result.il),
               "derive_public_child: PrivateKey::from_slice"),
        LAMBDA private_key :
    Try(AddExpAssign(xpub.public_key, private_key),
        LAMBDA public_key :
    Ok([public_key |-> public_key, chain_code |-> hmac_result.ir]))))

\* ExtendedPublicKey::derive_public_child
DerivePublicChild(xpub, child_number) ==
    IF child_number.kind = "Hardened" THEN Err("HardenedDeriveError")
    ELSE
      Bind(HmacSha512(<<xpub.chain_code>>,
                      Serialize(xpub.public_key) \o ToBeBytes(child_number.index)),
           LAMBDA hmac_result :
      Try(Unwrap(PrivateKeyFromSlice(hmac_result.il),
                 "derive_public_child: PrivateKey::from_slice"),
          LAMBDA private_key :
      Try(AddExpAssign(xpub.public_key, private_key),
          LAMBDA public_key :
      Ok([public_key |-> public_key, chain_code |-> hmac_result.ir]))))

\* ExtendedPublicKey::derive_public_path: the loop over the path, `?' on each step.
RECURSIVE DerivePublicPath(_, _)
DerivePublicPath(xpub, path) ==
    IF path = <<>> THEN Ok(xpub)
    ELSE Try(DerivePublicChild(xpub, Head(path)),
             LAMBDA child : DerivePublicPath(child, Tail(path)))

\* ExtendedPrivateKey::derive_private_child: returns the key (Ok) or panics.
DerivePrivateChild(xpriv, child_number) ==
    Bind(HmacSha512(<<xpriv.chain_code>>,
                    IF child_number.kind = "Normal"
                    THEN Serialize(PublicKeyFromSecretKey(xpriv.private_key))
                             \o ToBeBytes(child_number.index)
                    ELSE <<0, xpriv.private_key>> \o ToBeBytes(child_number.index)),
         LAMBDA hmac_result :
    Try(Unwrap(PrivateKeyFromSlice(hmac_result.il),
               "derive_private_child: PrivateKey::from_slice"),
        LAMBDA private_key :
    Try(Unwrap(AddAssign(private_key, xpriv.private_key),
               "derive_private_child: add_assign"),
        LAMBDA sum :
    Ok([private_key |-> sum, chain_code |-> hmac_result.ir]))))

\* A derive_private_path that derives every element from the master key.
DerivePrivatePathFromMaster(xpriv, path) ==
    IF path = <<>> THEN Ok(xpriv)
    ELSE DerivePrivateChild(xpriv, path[Len(path)])

\* ExtendedPrivateKey::derive_private_path
RECURSIVE DerivePrivatePath(_, _)
DerivePrivatePath(xpriv, path) ==
    IF path = <<>> THEN Ok(xpriv)
    ELSE Try(DerivePrivateChild(xpriv, Head(path)),
             LAMBDA child : DerivePrivatePath(child, Tail(path)))

(***************************************************************************)
(* var_int.rs and transaction/: the wire format of a transaction.  Buffers *)
(* are sequences of bytes; a decoder returns Ok([val, rest]) or Err.       *)
(***************************************************************************)
OP_RETURN == 106

OP_DUP == 118

OP_HASH160 == 169

OP_PUSHBYTES_20 == 20

OP_EQUALVERIFY == 136

OP_CHECKSIG == 172

\* The largest length the model represents; a longer VarInt saturates to it.
MaxUsize == 2147483647

Drop(buf, n) == SubSeq(buf, n + 1, Len(buf))

Take(buf, n) == SubSeq(buf, 1, n)

\* Buf::get_u32 / get_u64: big-endian
RECURSIVE BeUint(_)
BeUint(bytes) ==
    IF bytes = <<>> THEN 0
    ELSE BeUint(Take(bytes, Len(bytes) - 1)) * 256 + bytes[Len(bytes)]

\* Buf::get_uint_le
RECURSIVE LeUint(_)
LeUint(bytes) ==
    IF bytes = <<>> THEN 0 ELSE Head(bytes) + 256 * LeUint(Tail(bytes))

\* BufMut::put_u32 / put_u64: big-endian on n bytes
RECURSIVE BeBytes(_, _)
BeBytes(x, n) ==
    IF n = 0 THEN <<>> ELSE Append(BeBytes(x \div 256, n - 1), x % 256)

\* BufMut::put_uint_le / put_u64_le: little-endian on n bytes
RECURSIVE LeBytes(_, _)
LeBytes(x, n) ==
    IF n = 0 THEN <<>> ELSE <<x % 256>> \o LeBytes(x \div 256, n - 1)

\* A u64 is the sequence of its 8 bytes, least significant first.
Zeros(n) == [i \in 1..n |-> 0]

\* `len as u64'
U64(n) == LeBytes(n, 8)

\* `x as usize', for lengths and counts: a value the model cannot hold as a
\* number is held as MaxUsize, which no buffer reaches.
AsUsize(x) ==
    IF SubSeq(x, 5, 8) # Zeros(4) \/ x[4] >= 128 THEN MaxUsize
    ELSE LeUint(Take(x, 4))

\* A decode that accepts every prefixed encoding, minimal or not.
VarIntDecodeAnyWidth(buf) ==
    IF buf = <<>> THEN Err("TooShort")
    ELSE LET first_byte == buf[1]
             rest == Tail(buf)
         IN  IF first_byte = 255 THEN
                 IF Len(rest) < 8 THEN Err("TooShort")
                 ELSE Ok([val |-> Take(rest, 8), rest |-> Drop(rest, 8)])
             ELSE IF first_byte = 254 THEN
                 IF Len(rest) < 4 THEN Err("TooShort")
                 ELSE Ok([val |-> Take(rest, 4) \o Zeros(4), rest |-> Drop(rest, 4)])
             ELSE IF first_byte = 253 THEN
                 IF Len(rest) < 2 THEN Err("TooShort")
                 ELSE Ok([val |-> Take(rest, 2) \o Zeros(6), rest |-> Drop(rest, 2)])
             ELSE Ok([val |-> <<first_byte>> \o Zeros(7), rest |-> rest])

\* VarInt::decode
VarIntDecode(buf) ==
    IF buf = <<>> THEN Err("TooShort")
    ELSE LET first_byte == buf[1]
             rest == Tail(buf)
         IN  IF first_byte = 255 THEN
                 IF Len(rest) < 8 THEN Err("TooShort")
                 ELSE Bind(Take(rest, 8), LAMBDA x :
                      IF SubSeq(x, 5, 8) = Zeros(4) THEN Err("NonMinimal")
                      ELSE Ok([val |-> x, rest |-> Drop(rest, 8)]))
             ELSE IF first_byte = 254 THEN
                 IF Len(rest) < 4 THEN Err("TooShort")
                 ELSE Bind(Take(rest, 4) \o Zeros(4), LAMBDA x :
                      IF SubSeq(x, 3, 8) = Zeros(6) THEN Err("NonMinimal")
                      ELSE Ok([val |-> x, rest |-> Drop(rest, 4)]))
             ELSE IF first_byte = 253 THEN
                 IF Len(rest) < 2 THEN Err("TooShort")
                 ELSE Bind(Take(rest, 2) \o Zeros(6), LAMBDA x :
                      IF LeUint(Take(x, 2)) < 253 THEN Err("NonMinimal")
                      ELSE Ok([val |-> x, rest |-> Drop(rest, 2)]))
             ELSE Ok([val |-> <<first_byte>> \o Zeros(7), rest |-> rest])

\* VarInt::encoded_len: the arms 0..=0xfc, 0xfd..=0xffff, 0x10000..=0xffffffff, _
VarIntEncodedLen(x) ==
    IF SubSeq(x, 2, 8) = Zeros(7) /\ x[1] <= 252 THEN 1
    ELSE IF SubSeq(x, 3, 8) = Zeros(6) THEN 3
    ELSE IF SubSeq(x, 5, 8) = Zeros(4) THEN 5
    ELSE 9

\* VarInt::encode_raw
VarIntEncode(x) ==
    IF SubSeq(x, 2, 8) = Zeros(7) /\ x[1] <= 252 THEN Take(x, 1)
    ELSE IF SubSeq(x, 3, 8) = Zeros(6) THEN <<253>> \o Take(x, 2)
    ELSE IF SubSeq(x, 5, 8) = Zeros(4) THEN <<254>> \o Take(x, 4)
    ELSE <<255>> \o x

\* Outpoint::decode
OutpointDecode(buf) ==
    IF Len(buf) < 32 + 4 THEN Err("OutpointTooShort")
    ELSE Ok([val |-> [tx_id |-> Take(buf, 32), vout |-> BeUint(SubSeq(buf, 33, 36))],
             rest |-> Drop(buf, 36)])

\* The script of an input or an output: a VarInt length, then that many bytes.
ScriptDecode(buf) ==
    Try(MapErr(VarIntDecode(buf), LAMBDA e : <<"ScriptLen", e>>),
        LAMBDA script_len :
    Bind(AsUsize(script_len.val), LAMBDA len :
    IF Len(script_len.rest) < len THEN Err(<<"ScriptTooShort">>)
    ELSE Ok([val |-> Take(script_len.rest, len),
             rest |-> Drop(script_len.rest, len)])))

\* Input::decode
InputDecode(buf) ==
    Try(MapErr(OutpointDecode(buf), LAMBDA e : <<"Outpoint", e>>),
        LAMBDA outpoint :
    Try(ScriptDecode(outpoint.rest),
        LAMBDA script :
    IF Len(script.rest) < 4 THEN Err(<<"SequenceTooShort">>)
    ELSE Ok([val |-> [outpoint |-> outpoint.val,
                      script |-> script.val,
                      sequence |-> BeUint(Take(script.rest, 4))],
             rest |-> Drop(script.rest, 4)])))

\* Output::decode
OutputDecode(buf) ==
    IF Len(buf) < 8 THEN Err(<<"ValueTooShort">>)
    ELSE Try(ScriptDecode(Drop(buf, 8)),
             LAMBDA script :
         Ok([val |-> [value |-> BeUint(Take(buf, 8)), script |-> script.val],
             rest |-> script.rest]))

\* (0..n).map(|_| Input::decode(buf)).collect::<Result<Vec<_>, _>>()
RECURSIVE InputsDecode(_, _, _)
InputsDecode(buf, n, acc) ==
    IF n = 0 THEN Ok([val |-> acc, rest |-> buf])
    ELSE Try(InputDecode(buf),
             LAMBDA input :
         Bind(Append(acc, input.val),
              LAMBDA inputs : InputsDecode(input.rest, n - 1, inputs)))

\* (0..n).map(|_| Output::decode(buf)).collect::<Result<Vec<_>, _>>()
RECURSIVE OutputsDecode(_, _, _)
OutputsDecode(buf, n, acc) ==
    IF n = 0 THEN Ok([val |-> acc, rest |-> buf])
    ELSE Try(OutputDecode(buf),
             LAMBDA output :
         Bind(Append(acc, output.val),
              LAMBDA outputs : OutputsDecode(output.rest, n - 1, outputs)))

\* Transaction::decode
TransactionDecode(buf) ==
    IF Len(buf) < 4 THEN Err(<<"VersionTooShort">>)
    ELSE
      Try(MapErr(VarIntDecode(Drop(buf, 4)), LAMBDA e : <<"InputCount", e>>),
          LAMBDA n_inputs :
      Try(MapErr(InputsDecode(n_inputs.rest, AsUsize(n_inputs.val), <<>>),
                 LAMBDA e : <<"Input", e>>),
          LAMBDA inputs :
      Try(MapErr(VarIntDecode(inputs.rest), LAMBDA e : <<"OutputCount", e>>),
          LAMBDA n_outputs :
      Try(MapErr(OutputsDecode(n_outputs.rest, AsUsize(n_outputs.val), <<>>),
                 LAMBDA e : <<"Output", e>>),
          LAMBDA outputs :
      IF Len(outputs.rest) < 4 THEN Err(<<"LockTimeTooShort">>)
      ELSE Ok([version |-> BeUint(Take(buf, 4)),
               inputs |-> inputs.val,
               outputs |-> outputs.val,
               lock_time |-> BeUint(Take(outputs.rest, 4))])))))

\* Input::encode_raw
InputEncode(input) ==
    input.outpoint.tx_id \o BeBytes(input.outpoint.vout, 4)
        \o VarIntEncode(U64(Len(input.script))) \o input.script
        \o BeBytes(input.sequence, 4)

\* Output::encode_raw
OutputEncode(output) ==
    BeBytes(output.value, 8) \o VarIntEncode(U64(Len(output.script))) \o output.script

RECURSIVE Concat(_)
Concat(seqs) == IF seqs = <<>> THEN <<>> ELSE Head(seqs) \o Concat(Tail(seqs))

\* Transaction::encode_raw
TransactionEncode(tx) ==
    BeBytes(tx.version, 4)
        \o VarIntEncode(U64(Len(tx.inputs)))
        \o Concat([i \in 1..Len(tx.inputs) |-> InputEncode(tx.inputs[i])])
        \o VarIntEncode(U64(Len(tx.outputs)))
        \o Concat([i \in 1..Len(tx.outputs) |-> OutputEncode(tx.outputs[i])])
        \o BeBytes(tx.lock_time, 4)

RECURSIVE Sum(_)
Sum(lens) == IF lens = <<>> THEN 0 ELSE Head(lens) + Sum(Tail(lens))

\* Input::encoded_len
InputEncodedLen(input) ==
    (32 + 4) + VarIntEncodedLen(U64(Len(input.script))) + Len(input.script) + 4

\* Output::encoded_len
OutputEncodedLen(output) ==
    8 + VarIntEncodedLen(U64(Len(output.script))) + Len(output.script)

\* Transaction::encoded_len
TransactionEncodedLen(tx) ==
    4 + VarIntEncodedLen(U64(Len(tx.inputs)))
      + Sum([i \in 1..Len(tx.inputs) |-> InputEncodedLen(tx.inputs[i])])
      + VarIntEncodedLen(U64(Len(tx.outputs)))
      + Sum([i \in 1..Len(tx.outputs) |-> OutputEncodedLen(tx.outputs[i])])
      + 4

\* A BufMut: the bytes written to it and remaining_mut().  A Vec<u8> grows, a
\* mutable slice has the capacity of its length.
EmptyVec == [written |-> <<>>, remaining |-> MaxUsize]

MutSlice(capacity) == [written |-> <<>>, remaining |-> capacity]

\* The put_* calls of encode_raw: a write past the capacity panics.
Put(buf, bytes) ==
    IF Len(bytes) > buf.remaining THEN Panic("BufMut::put: out of capacity")
    ELSE Ok([written |-> buf.written \o bytes,
             remaining |-> buf.remaining - Len(bytes)])

\* An encode that fills the buffer as far as it goes.
TransactionEncodeIntoPartial(tx, buf) ==
    IF buf.remaining < TransactionEncodedLen(tx)
    THEN [out |-> Err("InsufficientCapacity"),
          buf |-> Put(buf, Take(TransactionEncode(tx), buf.remaining)).val]
    ELSE Bind(Put(buf, TransactionEncode(tx)), LAMBDA put :
         [out |-> IF IsOk(put) THEN Ok(TRUE) ELSE put,
          buf |-> IF IsOk(put) THEN put.val ELSE buf])

\* Encodable::encode for a Transaction: the result and the buffer afterwards.
TransactionEncodeInto(tx, buf) ==
    IF buf.remaining < TransactionEncodedLen(tx)
    THEN [out |-> Err("InsufficientCapacity"), buf |-> buf]
    ELSE Bind(Put(buf, TransactionEncode(tx)), LAMBDA put :
         [out |-> IF IsOk(put) THEN Ok(TRUE) ELSE put,
          buf |-> IF IsOk(put) THEN put.val ELSE buf])

\* Script::is_p2pkh (the script is 0-indexed in the code)
IsP2pkh(script) ==
    /\ Len(script) = 25
    /\ script[1] = OP_DUP
    /\ script[2] = OP_HASH160
    /\ script[3] = OP_PUSHBYTES_20
    /\ script[24] = OP_EQUALVERIFY
    /\ script[25] = OP_CHECKSIG

(***************************************************************************)
(* stamp.rs: verify_stamp and create_stamp_private_keys.                   *)
(***************************************************************************)
StampErr(name) == Err([e |-> name])

\* The path [44, 145] both functions derive first.
StampPath ==
    <<FromNormalIndex(44).val, FromNormalIndex(145).val>>

\* A loop over the claimed outputs that checks their presence and their script
\* pattern but does not compare the address hash.
RECURSIVE VerifyVoutsNoHashCheck(_, _, _)
VerifyVoutsNoHashCheck(tx, vouts, tx_child) ==
    IF vouts = <<>> THEN Ok(TRUE)
    ELSE IF Head(vouts) >= Len(tx.outputs) THEN StampErr("MissingOutput")
    ELSE IF ~IsP2pkh(tx.outputs[Head(vouts) + 1].script) THEN StampErr("NotP2PKH")
    ELSE VerifyVoutsNoHashCheck(tx, Tail(vouts), tx_child)

\* The body of `for vout in &outpoint.vouts': Ok(TRUE) when every vout passes.
RECURSIVE VerifyVouts(_, _, _)
VerifyVouts(tx, vouts, tx_child) ==
    IF vouts = <<>> THEN Ok(TRUE)
    ELSE
      Bind(Head(vouts), LAMBDA vout :
      IF vout >= Len(tx.outputs) THEN StampErr("MissingOutput")
      ELSE
        Bind(tx.outputs[vout + 1].script, LAMBDA script :
        IF ~IsP2pkh(script) THEN StampErr("NotP2PKH")
        ELSE
          Bind(SubSeq(script, 4, 23), LAMBDA pubkey_hash :
          Try(MapErr(FromNormalIndex(vout), LAMBDA e : [e |-> "ChildNumberOverflow"]),
              LAMBDA child_number :
          Try(Unwrap(DerivePublicChild(tx_child, child_number),
                     "verify_stamp: derive_public_child(vout)"),
              LAMBDA child_key :
          Bind(Hash160(Serialize(child_key.public_key)), LAMBDA hash160_digest :
          IF hash160_digest # pubkey_hash
          THEN Err([e |-> "UnexpectedAddress",
                    actual |-> hash160_digest,
                    expected |-> pubkey_hash])
          ELSE VerifyVouts(tx, Tail(vouts), tx_child)))))))

\* A loop over the entries that derives every entry's key at index 0 instead of
\* at the entry's position.
RECURSIVE VerifyOutpointsIndexZero(_, _, _, _)
VerifyOutpointsIndexZero(stamp_outpoints, tx_num, intermediate_child, txs) ==
    IF tx_num >= Len(stamp_outpoints) THEN Ok(txs)
    ELSE
      Bind(stamp_outpoints[tx_num + 1], LAMBDA outpoint :
      Try(MapErr(TransactionDecode(outpoint.stamp_tx),
                 LAMBDA e : [e |-> "Decode", inner |-> e]),
          LAMBDA tx :
      Try(Unwrap(DerivePublicChild(intermediate_child, Normal(0)),
                 "verify_stamp: derive_public_child(tx_num)"),
          LAMBDA tx_child :
      Try(VerifyVouts(tx, outpoint.vouts, tx_child),
          LAMBDA checked :
      Bind(Append(txs, tx), LAMBDA pushed :
      VerifyOutpointsIndexZero(stamp_outpoints, tx_num + 1, intermediate_child,
                               pushed))))))

\* A loop over the entries that rejects an entry claiming no output.
RECURSIVE VerifyOutpointsNonEmpty(_, _, _, _)
VerifyOutpointsNonEmpty(stamp_outpoints, tx_num, intermediate_child, txs) ==
    IF tx_num >= Len(stamp_outpoints) THEN Ok(txs)
    ELSE
      Bind(stamp_outpoints[tx_num + 1], LAMBDA outpoint :
      Try(MapErr(TransactionDecode(outpoint.stamp_tx),
                 LAMBDA e : [e |-> "Decode", inner |-> e]),
          LAMBDA tx :
      Try(MapErr(FromNormalIndex(tx_num), LAMBDA e : [e |-> "ChildNumberOverflow"]),
          LAMBDA child_number :
      Try(Unwrap(DerivePublicChild(intermediate_child, child_number),
                 "verify_stamp: derive_public_child(tx_num)"),
          LAMBDA tx_child :
      Try(IF outpoint.vouts = <<>> THEN StampErr("MissingOutput")
          ELSE VerifyVouts(tx, outpoint.vouts, tx_child),
          LAMBDA checked :
      Bind(Append(txs, tx), LAMBDA pushed :
      VerifyOutpointsNonEmpty(stamp_outpoints, tx_num + 1, intermediate_child,
                              pushed)))))))

\* The body of `for (tx_num, outpoint) in stamp_outpoints.iter().enumerate()'.
RECURSIVE VerifyOutpoints(_, _, _, _)
VerifyOutpoints(stamp_outpoints, tx_num, intermediate_child, txs) ==
    IF tx_num >= Len(stamp_outpoints) THEN Ok(txs)
    ELSE
      Bind(stamp_outpoints[tx_num + 1], LAMBDA outpoint :
      Try(MapErr(TransactionDecode(outpoint.stamp_tx),
                 LAMBDA e : [e |-> "Decode", inner |-> e]),
          LAMBDA tx :
      Try(MapErr(FromNormalIndex(tx_num), LAMBDA e : [e |-> "ChildNumberOverflow"]),
          LAMBDA child_number :
      Try(Unwrap(DerivePublicChild(intermediate_child, child_number),
                 "verify_stamp: derive_public_child(tx_num)"),
          LAMBDA tx_child :
      Try(VerifyVouts(tx, outpoint.vouts, tx_child),
          LAMBDA checked :
      Bind(Append(txs, tx), LAMBDA pushed :
      VerifyOutpoints(stamp_outpoints, tx_num + 1, intermediate_child, pushed)))))))

\* A verify_stamp that verifies a stamp of type None like any other.
VerifyStampAnyType(stamp_outpoints, payload_digest, destination_public_key, stamp_type) ==
    Try(Unwrap(PrivateKeyFromSlice(payload_digest),
               "verify_stamp: PrivateKey::from_slice(payload_digest)"),
        LAMBDA payload_secret_key :
    Bind(PublicKeyFromSecretKey(payload_secret_key), LAMBDA payload_public_key :
    Try(MapErr(Combine(destination_public_key, payload_public_key),
               LAMBDA e : [e |-> "DegenerateCombination"]),
        LAMBDA combined_key :
    Bind(NewMasterPublic(combined_key, payload_digest), LAMBDA master_pk :
    Try(Unwrap(DerivePublicPath(master_pk, StampPath),
               "verify_stamp: derive_public_path"),
        LAMBDA intermediate_child :
    VerifyOutpoints(stamp_outpoints, 0, intermediate_child, <<>>))))))

\* verify_stamp
VerifyStamp(stamp_outpoints, payload_digest, destination_public_key, stamp_type) ==
    IF stamp_type = "None" THEN StampErr("NoneType")
    ELSE
      Try(Unwrap(PrivateKeyFromSlice(payload_digest),
                 "verify_stamp: PrivateKey::from_slice(payload_digest)"),
          LAMBDA payload_secret_key :
      Bind(PublicKeyFromSecretKey(payload_secret_key), LAMBDA payload_public_key :
      Try(MapErr(Combine(destination_public_key, payload_public_key),
                 LAMBDA e : [e |-> "DegenerateCombination"]),
          LAMBDA combined_key :
      Bind(NewMasterPublic(combined_key, payload_digest), LAMBDA master_pk :
      Try(Unwrap(DerivePublicPath(master_pk, StampPath),
                 "verify_stamp: derive_public_path"),
          LAMBDA intermediate_child :
      VerifyOutpoints(stamp_outpoints, 0, intermediate_child, <<>>))))))

\* The inner `vouts.into_iter().map(..).collect()' of create_stamp_private_keys.
RECURSIVE CreateVoutKeys(_, _, _)
CreateVoutKeys(vouts, tx_child, keys) ==
    IF vouts = <<>> THEN Ok(keys)
    ELSE
      Try(MapErr(FromNormalIndex(Head(vouts)), LAMBDA e : "ChildNumberOverflow"),
          LAMBDA child_number :
      Try(DerivePrivateChild(tx_child, child_number),
          LAMBDA child :
      Bind(Append(keys, child.private_key), LAMBDA pushed :
      CreateVoutKeys(Tail(vouts), tx_child, pushed))))

\* The outer `output_profile.into_iter().map(..).collect()': an entry of the
\* profile is <<tx_num, vouts>>.
RECURSIVE CreateProfileKeys(_, _, _)
CreateProfileKeys(output_profile, intermediate_child, keys) ==
    IF output_profile = <<>> THEN Ok(keys)
    ELSE
      Try(MapErr(FromNormalIndex(Head(output_profile)[1]),
                 LAMBDA e : "ChildNumberOverflow"),
          LAMBDA child_number :
      Try(DerivePrivateChild(intermediate_child, child_number),
          LAMBDA tx_child :
      Try(CreateVoutKeys(Head(output_profile)[2], tx_child, <<>>),
          LAMBDA private_keys_inner :
      Bind(Append(keys, private_keys_inner), LAMBDA pushed :
      CreateProfileKeys(Tail(output_profile), intermediate_child, pushed)))))

\* create_stamp_private_keys
CreateStampPrivateKeys(private_key, payload_digest, output_profile) ==
    Try(MapErr(AddAssign(private_key, payload_digest), LAMBDA e : "Addition"),
        LAMBDA sum :
    Bind(NewMasterPrivate(sum, payload_digest), LAMBDA master_private_key :
    Try(DerivePrivatePath(master_private_key, StampPath),
        LAMBDA intermediate_child :
    CreateProfileKeys(output_profile, intermediate_child, <<>>))))

\* The per-output key of digest h and destination D at list position tx_num and
\* output index vout: derived from the master key (D + h*G, chain code h) along
\* the path [44, 145, tx_num, vout].
StampKey(h, D, tx_num, vout) ==
    Try(PrivateKeyFromSlice(h), LAMBDA s :
    Try(Combine(D, PublicKeyFromSecretKey(s)), LAMBDA combined_key :
    Try(FromNormalIndex(tx_num), LAMBDA t :
    Try(FromNormalIndex(vout), LAMBDA v :
    DerivePublicPath(NewMasterPublic(combined_key, h), StampPath \o <<t, v>>)))))

\* The address hash of that key.
StampAddress(h, D, tx_num, vout) ==
    Try(StampKey(h, D, tx_num, vout), LAMBDA child_key :
    Ok(Hash160(Serialize(child_key.public_key))))

(***************************************************************************)
(* Byte strings of the relay: a Vec<u8> or a slice is a sequence of bytes, *)
(* a [u8; 32] is a number of Bytes32.                                      *)
(***************************************************************************)
DigestLen == 32

BlockSize == 16

\* `as_ref()' / `to_vec()' of a [u8; 32]: its 32 bytes.
AsRef(x) == [i \in 1..DigestLen |-> (x + i) % 256]

\* `try_into()' of a slice into a [u8; 32]: Err unless the slice has 32 bytes.
TryInto32(bytes) ==
    IF Len(bytes) = DigestLen THEN Ok(bytes[1] - 1) ELSE Err("TryFromSliceError")

(***************************************************************************)
(* AES-128-CBC with PKCS7 padding (block-modes): the block cipher is a     *)
(* keyed bytewise shift, the chaining adds the previous cipher block.      *)
(***************************************************************************)
\* Pkcs7::pad: n bytes of value n, n in 1..16, up to the next block boundary.
Pkcs7Pad(data) ==
    Bind(BlockSize - (Len(data) % BlockSize), LAMBDA n :
    data \o [i \in 1..n |-> n])

\* Pkcs7::unpad: Err(UnpadError) on an empty buffer or a malformed padding.
Pkcs7Unpad(data) ==
    IF data = <<>> THEN Err("BlockModeError")
    ELSE
      Bind(data[Len(data)], LAMBDA n :
      IF \/ n = 0
         \/ n > BlockSize
         \/ n > Len(data)
         \/ \E i \in (Len(data) - n + 1)..Len(data) : data[i] # n
      THEN Err("BlockModeError")
      ELSE Ok(SubSeq(data, 1, Len(data) - n)))

\* Cbc::encrypt over whole blocks: c_j = E_key(p_j + c_(j-1)), c_0 = iv.
RECURSIVE CbcEncryptBlocks(_, _, _)
CbcEncryptBlocks(key, prev, data) ==
    IF data = <<>> THEN <<>>
    ELSE
      Bind([i \in 1..BlockSize |-> (data[i] + prev[i] + key[i]) % 256], LAMBDA block :
      block \o CbcEncryptBlocks(key, block, Drop(data, BlockSize)))

\* Cbc::decrypt over whole blocks: p_j = D_key(c_j) - c_(j-1).
RECURSIVE CbcDecryptBlocks(_, _, _)
CbcDecryptBlocks(key, prev, data) ==
    IF data = <<>> THEN <<>>
    ELSE
      [i \in 1..BlockSize |-> (data[i] + 512 - prev[i] - key[i]) % 256]
          \o CbcDecryptBlocks(key, Take(data, BlockSize), Drop(data, BlockSize))

\* cipher.encrypt_vec(plaintext)
EncryptVec(key, iv, plaintext) == CbcEncryptBlocks(key, iv, Pkcs7Pad(plaintext))

\* cipher.decrypt(buffer): Err(BlockModeError) and an untouched buffer if its
\* length is not a multiple of the block size; otherwise the blocks are
\* decrypted in the buffer, whose length does not change, and the result is the
\* unpadded prefix, or Err(BlockModeError) on a malformed padding.
DecryptInPlace(key, iv, buffer) ==
    IF Len(buffer) % BlockSize # 0
    THEN [out |-> Err("BlockModeError"), buffer |-> buffer]
    ELSE
      Bind(CbcDecryptBlocks(key, iv, buffer), LAMBDA blocks :
      [out |-> Pkcs7Unpad(blocks), buffer |-> blocks])

\* cipher.decrypt_vec(ciphertext): the same on a copy.
DecryptVec(key, iv, ciphertext) == DecryptInPlace(key, iv, ciphertext).out

(***************************************************************************)
(* Payload (a prost message of crate::models, which is generated code):    *)
(* one varint field, timestamp, written as tag 0x08 and a one-byte value,  *)
(* and left out when it is 0.                                              *)
(***************************************************************************)
TimestampTag == 8

\* Payload::encode
PayloadEncode(payload) ==
    IF payload.timestamp = 0 THEN <<>> ELSE <<TimestampTag, payload.timestamp>>

\* Payload::decode: the fields in order, the last value of a field winning;
\* Err(DecodeError) on any other tag, a truncated field or a long varint.
RECURSIVE PayloadDecodeFields(_, _)
PayloadDecodeFields(buf, payload) ==
    IF buf = <<>> THEN Ok(payload)
    ELSE IF Head(buf) # TimestampTag \/ Len(buf) < 2 THEN Err("DecodeError")
    ELSE IF buf[2] >= 128 THEN Err("DecodeError")
    ELSE PayloadDecodeFields(Drop(buf, 2), [timestamp |-> buf[2]])

PayloadDecode(buf) == PayloadDecodeFields(buf, [timestamp |-> 0])

(***************************************************************************)
(* cashweb-relay/src/lib.rs: Message, ParsedMessage.                       *)
(***************************************************************************)
\* A digest check that fails when the computed digest EQUALS the stored one.
DigestInverted(self) ==
    IF Len(self.payload_digest) = 0
    THEN IF self.payload = <<>> THEN Err("DigestAndPayloadMissing")
         ELSE Ok(Sha256(self.payload))
    ELSE IF Len(self.payload_digest) = DigestLen
    THEN IF self.payload # <<>>
         THEN IF AsRef(Sha256(self.payload)) = self.payload_digest
              THEN Err("FraudulentDigest")
              ELSE Ok(Sha256(self.payload))
         ELSE TryInto32(self.payload_digest)
    ELSE Err("UnexpectedLengthDigest")

\* A digest that does not look at the payload when the digest field is empty and
\* treats every non-empty digest field as a 32-byte one.
DigestUnchecked(self) ==
    IF Len(self.payload_digest) = 0 THEN Ok(Sha256(self.payload))
    ELSE IF self.payload # <<>>
    THEN IF AsRef(Sha256(self.payload)) # self.payload_digest
         THEN Err("FraudulentDigest")
         ELSE Ok(Sha256(self.payload))
    ELSE Ok(self.payload_digest[1] - 1)

\* Message::digest
Digest(self) ==
    IF Len(self.payload_digest) = 0
    THEN IF self.payload = <<>> THEN Err("DigestAndPayloadMissing")
         ELSE Ok(Sha256(self.payload))
    ELSE IF Len(self.payload_digest) = DigestLen
    THEN IF self.payload # <<>>
         THEN Bind(Sha256(self.payload), LAMBDA payload_digest :
              IF AsRef(payload_digest) # self.payload_digest
              THEN Err("FraudulentDigest")
              ELSE Ok(payload_digest))
         ELSE Unwrap(TryInto32(self.payload_digest), "digest: try_into")
    ELSE Err("UnexpectedLengthDigest")

\* Option: None, Some(v).
None == [some |-> FALSE]

Some(v) == [some |-> TRUE, val |-> v]

\* EncryptionScheme::from_i32: the known schemes are 0 (None) and 1 (EphemeralDH).
EncryptionSchemeFromI32(scheme) ==
    IF scheme \in {0, 1} THEN Some(scheme) ELSE None

\* StampType::from_i32: 0 is None, 1 is MessageCommitment.
StampTypeFromI32(stamp_type) ==
    IF stamp_type = 0 THEN Some("None")
    ELSE IF stamp_type = 1 THEN Some("MessageCommitment")
    ELSE None

\* A parse that takes every scheme integer for a known EncryptionScheme.
ParseAnyScheme(self) ==
    Try(MapErr(PublicKeyFromSlice(self.source_public_key),
               LAMBDA e : [e |-> "SourcePublicKey", inner |-> e]),
        LAMBDA source_public_key :
    Try(MapErr(PublicKeyFromSlice(self.destination_public_key),
               LAMBDA e : [e |-> "DestinationPublicKey", inner |-> e]),
        LAMBDA destination_public_key :
    Try(MapErr(Digest(self), LAMBDA e : [e |-> "Digest", inner |-> e]),
        LAMBDA payload_digest :
    IF ~self.stamp.some THEN Err([e |-> "MissingStamp"])
    ELSE
      Try(MapErr(TryInto32(self.payload_hmac),
                 LAMBDA e : [e |-> "UnexpectedLengthPayloadHmac"]),
          LAMBDA payload_hmac :
      Ok([source_public_key |-> source_public_key,
          destination_public_key |-> destination_public_key,
          received_time |-> self.received_time,
          payload_digest |-> payload_digest,
          stamp |-> self.stamp.val,
          scheme |-> self.scheme,
          salt |-> self.salt,
          payload_hmac |-> payload_hmac,
          payload_size |-> self.payload_size,
          payload |-> self.payload])))))

\* Message::parse
Parse(self) ==
    Try(MapErr(PublicKeyFromSlice(self.source_public_key),
               LAMBDA e : [e |-> "SourcePublicKey", inner |-> e]),
        LAMBDA source_public_key :
    Try(MapErr(PublicKeyFromSlice(self.destination_public_key),
               LAMBDA e : [e |-> "DestinationPublicKey", inner |-> e]),
        LAMBDA destination_public_key :
    Try(MapErr(Digest(self), LAMBDA e : [e |-> "Digest", inner |-> e]),
        LAMBDA payload_digest :
    IF ~self.stamp.some THEN Err([e |-> "MissingStamp"])
    ELSE IF ~EncryptionSchemeFromI32(self.scheme).some
    THEN Err([e |-> "UnsupportedStampType"])
    ELSE
      Try(MapErr(TryInto32(self.payload_hmac),
                 LAMBDA e : [e |-> "UnexpectedLengthPayloadHmac"]),
          LAMBDA payload_hmac :
      Ok([source_public_key |-> source_public_key,
          destination_public_key |-> destination_public_key,
          received_time |-> self.received_time,
          payload_digest |-> payload_digest,
          stamp |-> self.stamp.val,
          scheme |-> EncryptionSchemeFromI32(self.scheme).val,
          salt |-> self.salt,
          payload_hmac |-> payload_hmac,
          payload_size |-> self.payload_size,
          payload |-> self.payload])))))

\* ParsedMessage::into_message
IntoMessage(self) ==
    [source_public_key |-> Serialize(self.source_public_key),
     destination_public_key |-> Serialize(self.destination_public_key),
     received_time |-> self.received_time,
     payload_digest |-> AsRef(self.payload_digest),
     stamp |-> Some(self.stamp),
     scheme |-> self.scheme,
     salt |-> self.salt,
     payload_hmac |-> AsRef(self.payload_hmac),
     payload_size |-> self.payload_size,
     payload |-> self.payload]

\* create_merged_key
CreateMergedKey(source_public_key, private_key) ==
    MulAssign(source_public_key, private_key)

\* A create_shared_key that keys the HMAC with the public key it was given.
CreateSharedKeyUnmerged(source_public_key, private_key, salt) ==
    Try(CreateMergedKey(source_public_key, private_key), LAMBDA merged_key :
    Ok(HmacSha256(Serialize(source_public_key), salt)))

\* create_shared_key
CreateSharedKey(source_public_key, private_key, salt) ==
    Try(CreateMergedKey(source_public_key, private_key), LAMBDA merged_key :
    Ok(HmacSha256(Serialize(merged_key), salt)))

\* authenticate (the free function)
Authenticate(shared_key, payload_digest, payload_hmac) ==
    IF AsRef(HmacSha256(shared_key, payload_digest)) # payload_hmac
    THEN Err("InvalidHmac")
    ELSE Ok(TRUE)

\* ParsedMessage::authenticate: the third argument of the call is self.salt.
ParsedAuthenticate(self, shared_key) ==
    Authenticate(AsRef(shared_key), AsRef(self.payload_digest), self.salt)

\* Stamp::verify_stamp
StampVerifyStamp(self, payload_digest, destination_public_key) ==
    IF ~StampTypeFromI32(self.stamp_type).some THEN StampErr("UnsupportedStampType")
    ELSE VerifyStamp(self.stamp_outpoints, payload_digest, destination_public_key,
                     StampTypeFromI32(self.stamp_type).val)

\* ParsedMessage::verify_stamp
ParsedVerifyStamp(self) ==
    StampVerifyStamp(self.stamp, self.payload_digest, self.destination_public_key)

\* `shared_key.split_at(16)': the cipher key and the IV.
CipherKey(shared_key) == Take(AsRef(shared_key), BlockSize)

CipherIv(shared_key) == Drop(AsRef(shared_key), BlockSize)

\* encrypt_payload
EncryptPayload(shared_key, plaintext) ==
    EncryptVec(CipherKey(shared_key), CipherIv(shared_key), plaintext)

\* What a call of open or open_in_place leaves behind: its result, the steps it
\* ran, in order, and the payload buffer of the message afterwards.
Opening(out, steps, payload) == [out |-> out, steps |-> steps, payload |-> payload]

\* OpenError::Stamp(e), SharedKey(e), Decrypt(e), Payload(e)
OpenErr(step, e) == Err([step |-> step, inner |-> e])

\* OpenError::Authentication
AuthenticationErr == Err([step |-> "Authentication"])

\* An open that authenticates before it verifies the stamp.
OpenAuthenticateFirst(self, private_key) ==
    Bind(CreateSharedKey(self.source_public_key, private_key, self.salt),
         LAMBDA shared_key :
    IF IsErr(shared_key)
    THEN Opening(OpenErr("SharedKey", shared_key.err),
                 <<"create_shared_key">>, self.payload)
    ELSE IF IsErr(ParsedAuthenticate(self, shared_key.val))
    THEN Opening(AuthenticationErr,
                 <<"create_shared_key", "authenticate">>, self.payload)
    ELSE
      Bind(ParsedVerifyStamp(self), LAMBDA txs :
      IF ~IsOk(txs)
      THEN Opening(IF IsErr(txs) THEN OpenErr("Stamp", txs.err) ELSE txs,
                   <<"create_shared_key", "authenticate", "verify_stamp">>,
                   self.payload)
      ELSE
        Bind(DecryptVec(CipherKey(shared_key.val), CipherIv(shared_key.val),
                        self.payload), LAMBDA decrypted :
        IF IsErr(decrypted)
        THEN Opening(OpenErr("Decrypt", decrypted.err),
                     <<"create_shared_key", "authenticate", "verify_stamp",
                       "decrypt">>, self.payload)
        ELSE
          Bind(PayloadDecode(self.payload), LAMBDA payload :
          Opening(IF IsErr(payload) THEN OpenErr("Payload", payload.err)
                  ELSE Ok([txs |-> txs.val, payload |-> payload.val]),
                  <<"create_shared_key", "authenticate", "verify_stamp",
                    "decrypt", "decode">>, self.payload)))))

\* An open_in_place that decrypts the buffer before it authenticates.
OpenInPlaceDecryptFirst(self, private_key) ==
    Bind(ParsedVerifyStamp(self), LAMBDA txs :
    IF ~IsOk(txs)
    THEN Opening(IF IsErr(txs) THEN OpenErr("Stamp", txs.err) ELSE txs,
                 <<"verify_stamp">>, self.payload)
    ELSE
      Bind(CreateSharedKey(self.source_public_key, private_key, self.salt),
           LAMBDA shared_key :
      IF IsErr(shared_key)
      THEN Opening(OpenErr("SharedKey", shared_key.err),
                   <<"verify_stamp", "create_shared_key">>, self.payload)
      ELSE
        Bind(DecryptInPlace(CipherKey(shared_key.val), CipherIv(shared_key.val),
                            self.payload), LAMBDA decrypted :
        IF IsErr(ParsedAuthenticate(self, shared_key.val))
        THEN Opening(AuthenticationErr,
                     <<"verify_stamp", "create_shared_key", "authenticate">>,
                     decrypted.buffer)
        ELSE IF IsErr(decrypted.out)
        THEN Opening(OpenErr("Decrypt", decrypted.out.err),
                     <<"verify_stamp", "create_shared_key", "authenticate",
                       "decrypt">>, decrypted.buffer)
        ELSE
          Bind(PayloadDecode(decrypted.buffer), LAMBDA payload :
          Opening(IF IsErr(payload) THEN OpenErr("Payload", payload.err)
                  ELSE Ok([txs |-> txs.val, payload |-> payload.val]),
                  <<"verify_stamp", "create_shared_key", "authenticate",
                    "decrypt", "decode">>, decrypted.buffer)))))

\* ParsedMessage::open_in_place: the payload is decrypted in self.payload, and
\* the whole buffer, padding included, is what is decoded.
OpenInPlace(self, private_key) ==
    Bind(ParsedVerifyStamp(self), LAMBDA txs :
    IF ~IsOk(txs)
    THEN Opening(IF IsErr(txs) THEN OpenErr("Stamp", txs.err) ELSE txs,
                 <<"verify_stamp">>, self.payload)
    ELSE
      Bind(CreateSharedKey(self.source_public_key, private_key, self.salt),
           LAMBDA shared_key :
      IF IsErr(shared_key)
      THEN Opening(OpenErr("SharedKey", shared_key.err),
                   <<"verify_stamp", "create_shared_key">>, self.payload)
      ELSE IF IsErr(ParsedAuthenticate(self, shared_key.val))
      THEN Opening(AuthenticationErr,
                   <<"verify_stamp", "create_shared_key", "authenticate">>,
                   self.payload)
      ELSE
        Bind(DecryptInPlace(CipherKey(shared_key.val), CipherIv(shared_key.val),
                            self.payload), LAMBDA decrypted :
        IF IsErr(decrypted.out)
        THEN Opening(OpenErr("Decrypt", decrypted.out.err),
                     <<"verify_stamp", "create_shared_key", "authenticate",
                       "decrypt">>, decrypted.buffer)
        ELSE
          Bind(PayloadDecode(decrypted.buffer), LAMBDA payload :
          Opening(IF IsErr(payload) THEN OpenErr("Payload", payload.err)
                  ELSE Ok([txs |-> txs.val, payload |-> payload.val]),
                  <<"verify_stamp", "create_shared_key", "authenticate",
                    "decrypt", "decode">>, decrypted.buffer)))))

\* ParsedMessage::open: the result of decrypt_vec is dropped, apart from its
\* error, and self.payload is what is decoded.
Open(self, private_key) ==
    Bind(ParsedVerifyStamp(self), LAMBDA txs :
    IF ~IsOk(txs)
    THEN Opening(IF IsErr(txs) THEN OpenErr("Stamp", txs.err) ELSE txs,
                 <<"verify_stamp">>, self.payload)
    ELSE
      Bind(CreateSharedKey(self.source_public_key, private_key, self.salt),
           LAMBDA shared_key :
      IF IsErr(shared_key)
      THEN Opening(OpenErr("SharedKey", shared_key.err),
                   <<"verify_stamp", "create_shared_key">>, self.payload)
      ELSE IF IsErr(ParsedAuthenticate(self, shared_key.val))
      THEN Opening(AuthenticationErr,
                   <<"verify_stamp", "create_shared_key", "authenticate">>,
                   self.payload)
      ELSE
        Bind(DecryptVec(CipherKey(shared_key.val), CipherIv(shared_key.val),
                        self.payload), LAMBDA decrypted :
        IF IsErr(decrypted)
        THEN Opening(OpenErr("Decrypt", decrypted.err),
                     <<"verify_stamp", "create_shared_key", "authenticate",
                       "decrypt">>, self.payload)
        ELSE
          Bind(PayloadDecode(self.payload), LAMBDA payload :
          Opening(IF IsErr(payload) THEN OpenErr("Payload", payload.err)
                  ELSE Ok([txs |-> txs.val, payload |-> payload.val]),
                  <<"verify_stamp", "create_shared_key", "authenticate",
                    "decrypt", "decode">>, self.payload)))))

(***************************************************************************)
(* Inputs of the derivation functions.                                     *)
(***************************************************************************)
Indices == 0..MaxIndex

ChildNumbers == {Normal(i) : i \in Indices} \cup {Hardened(i) : i \in Indices}

RECURSIVE SeqsUpTo(_, _)
SeqsUpTo(S, n) ==
    IF n = 0 THEN {<<>>}
    ELSE LET shorter == SeqsUpTo(S, n - 1)
         IN  shorter \cup {Append(s, x) : s \in shorter, x \in S}

Paths == SeqsUpTo(ChildNumbers, MaxPathLen)

NoCall == [op |-> "none"]

NoMsg == [state |-> "none"]

NoWallet == [state |-> "none"]

NoCrawl == [state |-> "none"]

(***************************************************************************)
(* Key derivation as a state machine: each action is one call.             *)
(***************************************************************************)
InitBip32 ==
    /\ call = NoCall
    /\ msg = NoMsg
    /\ res = NoCall
    /\ wallet = NoWallet
    /\ crawl = NoCrawl

CallDerivePrivateChild ==
    /\ call = NoCall
    /\ \E k \in PrivateKeys, c \in Bytes32, n \in ChildNumbers :
           /\ call' = [op |-> "derive_private_child", key |-> k, chain_code |-> c,
                       path |-> <<n>>,
                       out |-> DerivePrivateChild(NewMasterPrivate(k, c), n)]
           /\ UNCHANGED <<msg, res, wallet, crawl>>

CallDerivePublicChild ==
    /\ call = NoCall
    /\ \E P \in Points, c \in Bytes32, n \in ChildNumbers :
           /\ call' = [op |-> "derive_public_child", key |-> P, chain_code |-> c,
                       path |-> <<n>>,
                       out |-> DerivePublicChild(NewMasterPublic(P, c), n)]
           /\ UNCHANGED <<msg, res, wallet, crawl>>

CallDerivePrivatePath ==
    /\ call = NoCall
    /\ \E k \in PrivateKeys, c \in Bytes32, p \in Paths :
           /\ call' = [op |-> "derive_private_path", key |-> k, chain_code |-> c,
                       path |-> p,
                       out |-> DerivePrivatePath(NewMasterPrivate(k, c), p)]
           /\ UNCHANGED <<msg, res, wallet, crawl>>

CallDerivePublicPath ==
    /\ call = NoCall
    /\ \E P \in Points, c \in Bytes32, p \in Paths :
           /\ call' = [op |-> "derive_public_path", key |-> P, chain_code |-> c,
                       path |-> p,
                       out |-> DerivePublicPath(NewMasterPublic(P, c), p)]
           /\ UNCHANGED <<msg, res, wallet, crawl>>

\* Index words around 0, around the hardened bit and up to the largest word.
IndexWords ==
    (0..15) \cup ((HardenedBit - 16)..(HardenedBit + 15))
        \cup ((2 * HardenedBit - 16)..(2 * HardenedBit - 1))

\* One call of a constructor of ChildNumber.
CallChildNumber ==
    /\ call = NoCall
    /\ \E index \in IndexWords :
           \/ call' = [op |-> "from_normal_index", index |-> index,
                       out |-> FromNormalIndex(index)]
           \/ call' = [op |-> "from_hardened_index", index |-> index,
                       out |-> FromHardenedIndex(index)]
           \/ call' = [op |-> "from", index |-> index, out |-> Ok(FromU32(index))]
    /\ UNCHANGED <<msg, res, wallet, crawl>>

NextBip32 ==
    \/ CallDerivePrivateChild
    \/ CallDerivePublicChild
    \/ CallDerivePrivatePath
    \/ CallDerivePublicPath
    \/ CallChildNumber

SpecBip32 == InitBip32 /\ [][NextBip32]_vars

(***************************************************************************)
(* Stamps as a sender builds them: for each entry <<tx_num, vouts>> of an  *)
(* output profile, a transaction whose claimed outputs pay to the HASH160  *)
(* of the keys of create_stamp_private_keys and whose other outputs are    *)
(* OP_RETURN outputs.  A stamp may then be damaged in one place.           *)
(***************************************************************************)
P2pkhScript(hash) ==
    <<OP_DUP, OP_HASH160, OP_PUSHBYTES_20>> \o hash \o <<OP_EQUALVERIFY, OP_CHECKSIG>>

OpReturnScript == <<OP_RETURN, 1, 0>>

AddressOf(private_key) == Hash160(Serialize(PublicKeyFromSecretKey(private_key)))

FundingInput ==
    [outpoint |-> [tx_id |-> [i \in 1..32 |-> 0], vout |-> 0],
     script |-> <<>>, sequence |-> 0]

MaxOf(S) == CHOOSE x \in S : \A y \in S : y <= x

Range(f) == {f[i] : i \in DOMAIN f}

StampTx(vouts, keys) ==
    LET n == IF vouts = <<>> THEN 0 ELSE MaxOf(Range(vouts)) + 1
        ScriptAt(j) ==
            IF \E i \in 1..Len(vouts) : vouts[i] = j
            THEN P2pkhScript(AddressOf(keys[CHOOSE i \in 1..Len(vouts) : vouts[i] = j]))
            ELSE OpReturnScript
    IN  [version |-> 1,
         inputs |-> <<FundingInput>>,
         outputs |-> [j \in 1..n |-> [value |-> 546, script |-> ScriptAt(j - 1)]],
         lock_time |-> 0]

BuildStamp(output_profile, keys) ==
    [i \in 1..Len(output_profile) |->
        [stamp_tx |-> TransactionEncode(StampTx(output_profile[i][2], keys[i])),
         vouts |-> output_profile[i][2]]]

\* Profiles whose k-th entry has tx_num k: the sender lists the transactions in
\* the order of their derivation index.
AlignedProfiles ==
    { <<>>,
      << <<0, <<>>>> >>,
      << <<0, <<0>>>> >>,
      << <<0, <<1>>>> >>,
      << <<0, <<0, 1>>>> >>,
      << <<0, <<0>>>>, <<1, <<0>>>> >>,
      << <<0, <<1, 0>>>>, <<1, <<>>>> >> }

Profiles ==
    AlignedProfiles \cup
        { << <<1, <<0>>>> >>,
          << <<1, <<0>>>>, <<0, <<0>>>> >>,
          << <<0, <<HardenedBit>>>> >>,
          << <<HardenedBit, <<0>>>> >> }

SentStamps ==
    { BuildStamp(p, CreateStampPrivateKeys(d, h, p).val) :
        <<d, h, p>> \in { x \in PrivateKeys \X Bytes32 \X AlignedProfiles :
                            IsOk(CreateStampPrivateKeys(x[1], x[2], x[3])) } }

WithTx(outpoints, i, raw) ==
    [outpoints EXCEPT ![i] = [stamp_tx |-> raw, vouts |-> outpoints[i].vouts]]

WithVouts(outpoints, i, vouts) ==
    [outpoints EXCEPT ![i] = [stamp_tx |-> outpoints[i].stamp_tx, vouts |-> vouts]]

WithScript(raw, j, script) ==
    LET tx == TransactionDecode(raw).val
    IN  TransactionEncode(
            [tx EXCEPT !.outputs[j] = [value |-> tx.outputs[j].value, script |-> script]])

NumOutputs(raw) == Len(TransactionDecode(raw).val.outputs)

Damaged(outpoints) ==
    LET I == 1..Len(outpoints)
    IN  { WithTx(outpoints, i, Take(outpoints[i].stamp_tx,
                                    Len(outpoints[i].stamp_tx) - 1)) : i \in I }
        \cup { WithVouts(outpoints, i, <<>>) : i \in I }
        \cup { WithVouts(outpoints, i,
                         Append(outpoints[i].vouts, NumOutputs(outpoints[i].stamp_tx))) :
                 i \in I }
        \cup { WithTx(outpoints, i, WithScript(outpoints[i].stamp_tx, 1, OpReturnScript)) :
                 i \in { k \in I : NumOutputs(outpoints[k].stamp_tx) > 0 } }
        \cup { WithTx(outpoints, i,
                      WithScript(outpoints[i].stamp_tx, 1,
                                 Take(P2pkhScript(AddressOf(1)), 24))) :
                 i \in { k \in I : NumOutputs(outpoints[k].stamp_tx) > 0 } }
        \cup { <<outpoints[2], outpoints[1]>> : i \in { k \in I : k = 2 } }

StampInputs == SentStamps \cup UNION { Damaged(o) : o \in SentStamps }

StampTypes == {"None", "MessageCommitment"}

(***************************************************************************)
(* Stamp construction and verification as a state machine.                 *)
(***************************************************************************)
InitStamp ==
    /\ call = NoCall
    /\ msg = NoMsg
    /\ res = NoCall
    /\ wallet = NoWallet
    /\ crawl = NoCrawl

CallCreateStampPrivateKeys ==
    /\ call = NoCall
    /\ \E d \in PrivateKeys, h \in Bytes32, p \in Profiles :
           /\ call' = [op |-> "create_stamp_private_keys", private_key |-> d,
                       payload_digest |-> h, output_profile |-> p,
                       out |-> CreateStampPrivateKeys(d, h, p)]
           /\ UNCHANGED <<msg, res, wallet, crawl>>

CallVerifyStamp ==
    /\ call = NoCall
    /\ \E o \in StampInputs, h \in Bytes32, D \in Points, t \in StampTypes :
           /\ call' = [op |-> "verify_stamp", stamp_outpoints |-> o,
                       payload_digest |-> h, destination_public_key |-> D,
                       stamp_type |-> t,
                       out |-> VerifyStamp(o, h, D, t)]
           /\ UNCHANGED <<msg, res, wallet, crawl>>

NextStamp ==
    \/ CallCreateStampPrivateKeys
    \/ CallVerifyStamp

SpecStamp == InitStamp /\ [][NextStamp]_vars

(***************************************************************************)
(* Message::digest as a state machine: one call on a message whose digest  *)
(* field and payload are drawn from the lengths and contents that matter.  *)
(***************************************************************************)
MaxPayloadLen == 3

RawPayloads == SeqsUpTo({0, 1}, MaxPayloadLen)

DigestFields ==
    { <<>>, <<1>>, [i \in 1..(DigestLen - 1) |-> i], [i \in 1..(DigestLen + 1) |-> i] }
        \cup { AsRef(x) : x \in Bytes32 }

\* A Message with the given digest field and payload, and nothing else of note.
BareMessage(payload_digest, payload) ==
    [source_public_key |-> Serialize(1),
     destination_public_key |-> Serialize(1),
     received_time |-> 0,
     payload_digest |-> payload_digest,
     stamp |-> None,
     scheme |-> 0,
     salt |-> <<>>,
     payload_hmac |-> <<>>,
     payload_size |-> Len(payload),
     payload |-> payload]

InitDigest ==
    /\ call = NoCall
    /\ msg = NoMsg
    /\ res = NoCall
    /\ wallet = NoWallet
    /\ crawl = NoCrawl

CallDigest ==
    /\ call = NoCall
    /\ \E payload_digest \in DigestFields, payload \in RawPayloads :
           /\ call' = [op |-> "digest",
                       self |-> BareMessage(payload_digest, payload),
                       out |-> Digest(BareMessage(payload_digest, payload))]
           /\ UNCHANGED <<msg, res, wallet, crawl>>

NextDigest == CallDigest

SpecDigest == InitDigest /\ [][NextDigest]_vars

(***************************************************************************)
(* The relay pipeline as a state machine: a sender builds a message for a  *)
(* destination key, possibly a damaged one; the receiver parses it and     *)
(* opens it any number of times, with open or open_in_place; the payload   *)
(* buffer is rewritten by open_in_place up to MaxRewrites times.           *)
(***************************************************************************)
MaxRewrites == 2

MaxTimestamp == 1

SourceKeys == {1}

DestinationKeys == {2, 3}

Payloads == { [timestamp |-> t] : t \in 0..MaxTimestamp }

\* Salts of 0, 1 and 32 bytes.
Salts == { <<>>, <<7>> } \cup { AsRef(x) : x \in Bytes32 }

\* The stamp a sender pays for digest h and destination key D: one transaction
\* whose output 0 pays to the address of [44, 145, 0, 0].
PaidStamp(h, D) ==
    << [stamp_tx |-> TransactionEncode(
                         [version |-> 1,
                          inputs |-> <<FundingInput>>,
                          outputs |-> << [value |-> 546,
                                          script |-> P2pkhScript(
                                              StampAddress(h, D, 0, 0).val)] >>,
                          lock_time |-> 0]),
        vouts |-> <<0>>] >>

\* The same transaction paying to an address of nobody.
ForeignStamp ==
    << [stamp_tx |-> TransactionEncode(
                         [version |-> 1,
                          inputs |-> <<FundingInput>>,
                          outputs |-> << [value |-> 546,
                                          script |-> P2pkhScript(Hash160(<<0>>))] >>,
                          lock_time |-> 0]),
        vouts |-> <<0>>] >>

\* How the sender encodes the Payload: as Payload::encode does, or with the field
\* written four times (eight bytes, which decode to the same Payload).
Encodings == {"canonical", "repeated"}

\* The payload field: the ciphertext; the ciphertext without its last byte; the
\* ciphertext with its last byte changed; a payload changed after the digest was
\* taken; bytes that read as an encoded Payload and decrypt to a one-byte padding.
Bodies == {"sent", "truncated", "altered", "stale", "crafted"}

Tags == {"sent", "corrupted"}

StampKinds == {"paid", "vacuous", "foreign", "none"}

EncodingOf(encoding, payload) ==
    IF encoding = "canonical" THEN PayloadEncode(payload)
    ELSE [i \in 1..8 |-> IF i % 2 = 1 THEN TimestampTag ELSE payload.timestamp]

BodyOf(body, shared_key, ciphertext) ==
    IF body \in {"sent", "stale"} THEN ciphertext
    ELSE IF body = "truncated" THEN Take(ciphertext, Len(ciphertext) - 1)
    ELSE IF body = "altered"
    THEN [ciphertext EXCEPT ![Len(ciphertext)] = (@ + 1) % 256]
    ELSE [i \in 1..BlockSize |->
             IF i = BlockSize
             THEN (1 + CipherKey(shared_key)[i] + CipherIv(shared_key)[i]) % 256
             ELSE IF i % 2 = 1 THEN TimestampTag ELSE 1]

\* The payload_hmac field: HMAC(shared_key, payload_digest), or another value.
TagOf(tag, shared_key, payload_digest) ==
    Bind(HmacSha256(AsRef(shared_key), AsRef(payload_digest)), LAMBDA hmac :
    IF tag = "sent" THEN hmac ELSE (hmac + 1) % (CurveOrder + 2))

StampOf(kind, h, D) ==
    IF kind = "paid" THEN [stamp_type |-> 1, stamp_outpoints |-> PaidStamp(h, D)]
    ELSE IF kind = "vacuous" THEN [stamp_type |-> 1, stamp_outpoints |-> <<>>]
    ELSE IF kind = "foreign" THEN [stamp_type |-> 1, stamp_outpoints |-> ForeignStamp]
    ELSE [stamp_type |-> 0, stamp_outpoints |-> <<>>]

\* The message of a sender with private key s for the owner of private key d,
\* given the shared key of the two.
SentMessage(s, d, salt, shared_key, plaintext, body, tag, kind) ==
    Bind(PublicKeyFromSecretKey(d), LAMBDA D :
    Bind(BodyOf(body, shared_key, EncryptPayload(shared_key, plaintext)),
         LAMBDA payload :
    Bind(Sha256(payload), LAMBDA payload_digest :
    [source_public_key |-> Serialize(PublicKeyFromSecretKey(s)),
     destination_public_key |-> Serialize(D),
     received_time |-> 0,
     payload_digest |-> AsRef(payload_digest),
     stamp |-> Some(StampOf(kind, payload_digest, D)),
     scheme |-> 1,
     salt |-> salt,
     payload_hmac |-> AsRef(TagOf(tag, shared_key, payload_digest)),
     payload_size |-> Len(payload),
     payload |-> IF body = "stale"
                 THEN [payload EXCEPT ![1] = (@ + 1) % 256]
                 ELSE payload])))

\* The sender can pay the stamp: the address of [44, 145, 0, 0] exists.
CanPay(d, shared_key, plaintext, body) ==
    IsOk(StampAddress(
        Sha256(BodyOf(body, shared_key, EncryptPayload(shared_key, plaintext))),
        PublicKeyFromSecretKey(d), 0, 0))

\* The keys a receiver tries: the destination key, another key, no valid key.
ReceiverKeys(d) == {d, (d % (CurveOrder - 1)) + 1, 0}

InitRelay ==
    /\ call = NoCall
    /\ msg = NoMsg
    /\ res = NoCall
    /\ wallet = NoWallet
    /\ crawl = NoCrawl

Send ==
    /\ msg = NoMsg
    /\ \E s \in SourceKeys, d \in DestinationKeys, salt \in Salts,
          payload \in Payloads, encoding \in Encodings, body \in Bodies,
          tag \in Tags, kind \in StampKinds :
         \E shared_key \in {CreateSharedKey(PublicKeyFromSecretKey(d), s, salt)} :
           /\ IsOk(shared_key)
           /\ kind = "paid" =>
                  CanPay(d, shared_key.val, EncodingOf(encoding, payload), body)
           /\ msg' = [state |-> "sent",
                      wire |-> SentMessage(s, d, salt, shared_key.val,
                                           EncodingOf(encoding, payload),
                                           body, tag, kind),
                      sent |-> [source_private_key |-> s,
                                destination_private_key |-> d,
                                payload |-> payload,
                                intact |-> body = "sent" /\ tag = "sent"
                                           /\ kind = "paid"]]
    /\ UNCHANGED <<call, res, wallet, crawl>>

Receive ==
    /\ msg.state = "sent"
    /\ \E parsed \in {Parse(msg.wire)} :
           msg' = IF IsOk(parsed)
                  THEN [state |-> "parsed", parsed |-> parsed.val,
                        sent |-> msg.sent, rewrites |-> 0]
                  ELSE [state |-> "rejected", error |-> parsed.err, sent |-> msg.sent]
    /\ UNCHANGED <<call, res, wallet, crawl>>

DoOpen ==
    /\ msg.state = "parsed"
    /\ \E private_key \in ReceiverKeys(msg.sent.destination_private_key) :
         \E opening \in {Open(msg.parsed, private_key)} :
           /\ res' = [op |-> "open", self |-> msg.parsed, private_key |-> private_key,
                      out |-> opening.out, steps |-> opening.steps]
           /\ UNCHANGED msg
    /\ UNCHANGED <<call, wallet, crawl>>

DoOpenInPlace ==
    /\ msg.state = "parsed"
    /\ msg.rewrites < MaxRewrites
    /\ \E private_key \in ReceiverKeys(msg.sent.destination_private_key) :
         \E opening \in {OpenInPlace(msg.parsed, private_key)} :
           /\ res' = [op |-> "open_in_place", self |-> msg.parsed,
                      private_key |-> private_key,
                      out |-> opening.out, steps |-> opening.steps]
           /\ msg' = [msg EXCEPT !.rewrites = IF opening.payload = msg.parsed.payload
                                                 THEN @ ELSE @ + 1,
                                 !.parsed.payload = opening.payload]
    /\ UNCHANGED <<call, wallet, crawl>>

NextRelay ==
    \/ Send
    \/ Receive
    \/ DoOpen
    \/ DoOpenInPlace

SpecRelay == InitRelay /\ [][NextRelay]_vars

AllNormal(path) == \A i \in 1..Len(path) : path[i].kind = "Normal"

\* The extended public key of an extended private key.
Neuter(xpriv) ==
    [public_key |-> PublicKeyFromSecretKey(xpriv.private_key),
     chain_code |-> xpriv.chain_code]

(***************************************************************************)
(* C7  Derivation consistency: for a private key k, a chain code c and a   *)
(* non-empty path of Normal child numbers (one child being the path of     *)
(* length 1), the private derivation yields a key exactly when the public  *)
(* derivation from public_key_of(k) yields one, and then the public key of *)
(* the private child is the public child, with the same chain code.        *)
(***************************************************************************)
C7_DerivationConsistency ==
    (/\ call.op \in {"derive_private_child", "derive_private_path"}
     /\ call.path # <<>>
     /\ AllNormal(call.path))
    => LET pub == DerivePublicPath(
                      NewMasterPublic(PublicKeyFromSecretKey(call.key), call.chain_code),
                      call.path)
       IN  /\ IsOk(call.out) <=> IsOk(pub)
           /\ IsOk(call.out) => Neuter(call.out.val) = pub.val

C7_Witness ==
    /\ call.op = "derive_private_path"
    /\ Len(call.path) = 2
    /\ AllNormal(call.path)
    /\ call.path[1] # call.path[2]
    /\ IsOk(call.out)
    /\ call.out.val.private_key # call.key

(***************************************************************************)
(* What a stamp commits to, stated apart from the loops of verify_stamp.   *)
(***************************************************************************)
\* The master key, the [44, 145] child and the child of every list position derive.
StampKeysDerive(outpoints, h, D) ==
    Bind(Try(PrivateKeyFromSlice(h), LAMBDA s :
         Try(Combine(D, PublicKeyFromSecretKey(s)), LAMBDA combined_key :
         Ok(NewMasterPublic(combined_key, h)))), LAMBDA master :
    /\ IsOk(master)
    /\ IsOk(DerivePublicPath(master.val, StampPath))
    /\ \A i \in 1..Len(outpoints) :
           IsOk(DerivePublicPath(master.val, StampPath \o <<Normal(i - 1)>>)))

\* Every entry decodes, and every claimed output exists, is P2PKH and pays to
\* the address of its position and index.
StampOutputsMatch(outpoints, h, D) ==
    \A i \in 1..Len(outpoints) :
        Bind(TransactionDecode(outpoints[i].stamp_tx), LAMBDA tx :
        /\ IsOk(tx)
        /\ \A j \in 1..Len(outpoints[i].vouts) :
               Bind(outpoints[i].vouts[j], LAMBDA vout :
               /\ vout < Len(tx.val.outputs)
               /\ IsP2pkh(tx.val.outputs[vout + 1].script)
               /\ StampAddress(h, D, i - 1, vout)
                      = Ok(SubSeq(tx.val.outputs[vout + 1].script, 4, 23))))

DecodedTransactions(outpoints) ==
    [i \in 1..Len(outpoints) |-> TransactionDecode(outpoints[i].stamp_tx).val]

ClaimsAnOutput(outpoints) == \E i \in 1..Len(outpoints) : outpoints[i].vouts # <<>>

\* <<tx_num, vout>> of the first output the stamp claims.
FirstClaimed(outpoints) ==
    LET i == CHOOSE k \in 1..Len(outpoints) :
                 /\ outpoints[k].vouts # <<>>
                 /\ \A m \in 1..(k - 1) : outpoints[m].vouts = <<>>
    IN  <<i - 1, outpoints[i].vouts[1]>>

IsVerify == call.op = "verify_stamp" /\ call.stamp_type # "None"

(***************************************************************************)
(* C5 as stated: verify_stamp with a non-None type returns Ok exactly when *)
(* every entry decodes and every claimed output exists, is P2PKH and       *)
(* embeds the address hash of the key at [44, 145, tx_num, vout].  Stated  *)
(* for the calls that return, so that no panic of verify_stamp is what     *)
(* refutes it.                                                             *)
(***************************************************************************)
C5_OkExactlyWhenOutputsMatch ==
    (IsVerify /\ ~IsPanic(call.out)) =>
        (IsOk(call.out) <=>
            StampOutputsMatch(call.stamp_outpoints, call.payload_digest,
                              call.destination_public_key))

(***************************************************************************)
(* C5  verify_stamp with a non-None type returns Ok(txs) exactly when the  *)
(* master key, the [44, 145] child and the child of every list position    *)
(* derive, every entry decodes and every claimed output exists, is P2PKH   *)
(* and embeds the address hash of the key at [44, 145, tx_num, vout], with *)
(* tx_num the position of the entry; txs is then the list of the decoded   *)
(* transactions in stamp order.                                            *)
(***************************************************************************)
C5_OkExactlyWhenKeysDeriveAndOutputsMatch ==
    IsVerify =>
        /\ IsOk(call.out) <=>
               /\ StampKeysDerive(call.stamp_outpoints, call.payload_digest,
                                  call.destination_public_key)
               /\ StampOutputsMatch(call.stamp_outpoints, call.payload_digest,
                                    call.destination_public_key)
        /\ IsOk(call.out) => call.out.val = DecodedTransactions(call.stamp_outpoints)

\* Two entries, each claiming an output, verify at their positions.
C5_Witness ==
    /\ IsVerify
    /\ IsOk(call.out)
    /\ Len(call.stamp_outpoints) = 2
    /\ \A i \in 1..2 : call.stamp_outpoints[i].vouts # <<>>
    /\ Len(call.out.val) = 2

(***************************************************************************)
(* C6 as stated: verify_stamp never panics: for every payload digest,      *)
(* destination key and outpoint list it returns Ok or a StampError.        *)
(***************************************************************************)
C6_VerifyStampNeverPanics ==
    call.op = "verify_stamp" => ~IsPanic(call.out)

\* verify_stamp on the outpoints of the call with another digest h and another
\* destination key D.
Reverify(h, D) == VerifyStamp(call.stamp_outpoints, h, D, call.stamp_type)

\* The address at the first claimed output for (h, D), where it is defined, is
\* not the one the verified stamp pays to.
OtherAddress(h, D) ==
    LET first == FirstClaimed(call.stamp_outpoints)
        paid  == StampAddress(call.payload_digest, call.destination_public_key,
                              first[1], first[2])
        other == StampAddress(h, D, first[1], first[2])
    IN  IsOk(other) => other # paid

(***************************************************************************)
(* C4 as stated: a stamp (any list of outpoints) that verifies for a       *)
(* digest and a destination key fails with UnexpectedAddress for every     *)
(* other digest or destination key.  Stated for the second calls that      *)
(* return, so that no panic of verify_stamp is what refutes it.            *)
(***************************************************************************)
C4_TamperEvidenceAnyStamp ==
    (IsVerify /\ IsOk(call.out)) =>
        \A h \in Bytes32, D \in Points :
            (/\ <<h, D>> # <<call.payload_digest, call.destination_public_key>>
             /\ ClaimsAnOutput(call.stamp_outpoints) => OtherAddress(h, D)
             /\ ~IsPanic(Reverify(h, D)))
            => /\ IsErr(Reverify(h, D))
               /\ Reverify(h, D).err.e = "UnexpectedAddress"

(***************************************************************************)
(* C4  A stamp that claims at least one output and verifies for a digest   *)
(* and a destination key never verifies for another digest or destination  *)
(* key whose address at the first claimed output differs: the second call  *)
(* fails with UnexpectedAddress, carrying the derived and the embedded     *)
(* hash, unless the key construction for the new inputs fails first        *)
(* (DegenerateCombination, or an unwrap on an underivable key).            *)
(***************************************************************************)
C4_TamperEvidenceClaimedOutput ==
    (IsVerify /\ IsOk(call.out) /\ ClaimsAnOutput(call.stamp_outpoints)) =>
        \A h \in Bytes32, D \in Points :
            (/\ <<h, D>> # <<call.payload_digest, call.destination_public_key>>
             /\ OtherAddress(h, D))
            => LET first == FirstClaimed(call.stamp_outpoints)
                   other == StampAddress(h, D, first[1], first[2])
                   paid  == StampAddress(call.payload_digest,
                                         call.destination_public_key,
                                         first[1], first[2])
                   r     == Reverify(h, D)
               IN  /\ ~IsOk(r)
                   /\ IsErr(r) => r.err.e \in {"UnexpectedAddress",
                                               "DegenerateCombination"}
                   /\ (IsErr(r) /\ IsOk(other)) =>
                          r.err = [e |-> "UnexpectedAddress",
                                   actual |-> other.val,
                                   expected |-> paid.val]

\* A verified stamp with a claimed output is rejected with UnexpectedAddress for
\* another digest and for another destination key.
C4_Witness ==
    /\ IsVerify
    /\ IsOk(call.out)
    /\ ClaimsAnOutput(call.stamp_outpoints)
    /\ \E h \in Bytes32 \ {call.payload_digest} :
           LET r == Reverify(h, call.destination_public_key)
           IN  IsErr(r) /\ r.err.e = "UnexpectedAddress"
    /\ \E D \in Points \ {call.destination_public_key} :
           LET r == Reverify(call.payload_digest, D)
           IN  IsErr(r) /\ r.err.e = "UnexpectedAddress"

IsCreate == call.op = "create_stamp_private_keys"

\* The k-th entry of the profile has tx_num k - 1.
Aligned(output_profile) ==
    \A i \in 1..Len(output_profile) : output_profile[i][1] = i - 1

(***************************************************************************)
(* C8 as stated: when create_stamp_private_keys returns keys for d, h and  *)
(* a profile, the public key of the key for (tx_num, vout) is the key      *)
(* verify_stamp derives for D = d*G and h at position tx_num and index     *)
(* vout, and the stamp whose outputs pay to the HASH160 of those keys      *)
(* verifies for D and h.                                                   *)
(***************************************************************************)
C8_CreateMirrorsVerify ==
    (IsCreate /\ IsOk(call.out)) =>
        LET D == PublicKeyFromSecretKey(call.private_key)
            h == call.payload_digest
            p == call.output_profile
        IN  /\ \A i \in 1..Len(p) : \A j \in 1..Len(p[i][2]) :
                   LET K == StampKey(h, D, p[i][1], p[i][2][j])
                   IN  /\ IsOk(K)
                       /\ K.val.public_key = PublicKeyFromSecretKey(call.out.val[i][j])
            /\ Aligned(p) =>
                   IsOk(VerifyStamp(BuildStamp(p, call.out.val), h, D,
                                    "MessageCommitment"))

IsOpening == res.op \in {"open", "open_in_place"}

\* The shared key the receiver derives in the call recorded in res.
ReceiverSharedKey == CreateSharedKey(res.self.source_public_key, res.private_key,
                                     res.self.salt)

\* HMAC-SHA256(shared_key, payload_digest), the tag payload_hmac is meant to hold.
ExpectedHmac ==
    HmacSha256(AsRef(ReceiverSharedKey.val), AsRef(res.self.payload_digest))

(***************************************************************************)
(* C1 as stated: for a parsed message with a valid stamp and a valid       *)
(* private key, if payload_hmac differs from HMAC-SHA256(shared_key,       *)
(* payload_digest) then open and open_in_place fail with Authentication    *)
(* and attempt no decryption, and if it equals that HMAC then the          *)
(* authentication step passes.                                             *)
(***************************************************************************)
C1_AuthenticateBeforeDecrypt ==
    (/\ IsOpening
     /\ IsOk(ParsedVerifyStamp(res.self))
     /\ IsOk(ReceiverSharedKey))
    => /\ res.self.payload_hmac # ExpectedHmac
              => /\ res.out = AuthenticationErr
                 /\ \A i \in 1..Len(res.steps) : res.steps[i] # "decrypt"
       /\ res.self.payload_hmac = ExpectedHmac
              => res.out # AuthenticationErr

(***************************************************************************)
(* C2 as stated: a message built by a sender as payload =                  *)
(* encrypt_payload(create_shared_key(dest_pub, source_priv, salt),         *)
(* encode(P)), payload_hmac = HMAC(shared_key, payload_digest), with a     *)
(* valid stamp, is opened by open(dest_priv) to Ok(Opened) with payload P. *)
(***************************************************************************)
C2_OpenEndToEnd ==
    (/\ res.op = "open"
     /\ msg.state = "parsed"
     /\ msg.rewrites = 0
     /\ msg.sent.intact
     /\ res.private_key = msg.sent.destination_private_key)
    => /\ IsOk(res.out)
       /\ res.out.val.payload = msg.sent.payload

\* The steps of open and open_in_place, in their order.
OpenOrder == <<"verify_stamp", "create_shared_key", "authenticate", "decrypt", "decode">>

\* The result of each step on the message of the call recorded in res, each from
\* the message and the results of the steps it depends on.
StepStamp == ParsedVerifyStamp(res.self)

StepAuthenticate == ParsedAuthenticate(res.self, ReceiverSharedKey.val)

StepDecrypt ==
    DecryptInPlace(CipherKey(ReceiverSharedKey.val), CipherIv(ReceiverSharedKey.val),
                   res.self.payload)

StepDecode ==
    PayloadDecode(IF res.op = "open" THEN res.self.payload ELSE StepDecrypt.buffer)

\* The position in OpenOrder of the first step that fails, with its result: the
\* error tagged by the step; or 6, with Ok(Opened), if no step fails.
FirstFailing ==
    Bind(StepStamp, LAMBDA txs :
    IF ~IsOk(txs)
    THEN <<1, IF IsErr(txs) THEN OpenErr("Stamp", txs.err) ELSE txs>>
    ELSE IF IsErr(ReceiverSharedKey)
    THEN <<2, OpenErr("SharedKey", ReceiverSharedKey.err)>>
    ELSE IF IsErr(StepAuthenticate) THEN <<3, AuthenticationErr>>
    ELSE IF IsErr(StepDecrypt.out) THEN <<4, OpenErr("Decrypt", StepDecrypt.out.err)>>
    ELSE
      Bind(StepDecode, LAMBDA payload :
      IF IsErr(payload) THEN <<5, OpenErr("Payload", payload.err)>>
      ELSE <<6, Ok([txs |-> txs.val, payload |-> payload.val])>>))

(***************************************************************************)
(* C3  open and open_in_place run verify_stamp, create_shared_key,         *)
(* authenticate, CBC-decrypt and Payload decode in this order and stop at  *)
(* the first step that fails: the steps run are the steps up to that one,  *)
(* and the call returns its error tagged Stamp(e), SharedKey(e),           *)
(* Authentication, Decrypt(e) or Payload(e), or Ok(Opened) with the        *)
(* transactions of verify_stamp when all five succeed.                     *)
(***************************************************************************)
C3_StepsInOrder ==
    IsOpening =>
        \E first \in {FirstFailing} :
            /\ res.steps = SubSeq(OpenOrder, 1, IF first[1] = 6 THEN 5 ELSE first[1])
            /\ res.out = first[2]
            /\ IF first[1] = 6 THEN IsOk(res.out) ELSE IsErr(res.out)

(***************************************************************************)
(* C3, for the calls in which verify_stamp does not panic: the steps run   *)
(* are the steps up to the first failing one, in the order of OpenOrder,   *)
(* and the result is its tagged error, or Ok(Opened); a panic of           *)
(* verify_stamp unwinds out of open as the first and only step.            *)
(***************************************************************************)
C3_StepsInOrderUnlessPanic ==
    IsOpening =>
        \E first \in {FirstFailing} :
            /\ res.steps = SubSeq(OpenOrder, 1, IF first[1] = 6 THEN 5 ELSE first[1])
            /\ res.out = first[2]
            /\ IsPanic(res.out) => first[1] = 1 /\ IsPanic(StepStamp)

\* A message with an invalid stamp and a wrong HMAC: the result is Stamp(e), and
\* verify_stamp is the only step that ran.
C3_Witness ==
    /\ res.op = "open"
    /\ IsErr(StepStamp)
    /\ IsOk(ReceiverSharedKey)
    /\ res.self.payload_hmac # ExpectedHmac
    /\ IsErr(StepAuthenticate)
    /\ res.out = OpenErr("Stamp", StepStamp.err)
    /\ res.steps = <<"verify_stamp">>

IsDigest == call.op = "digest"

(***************************************************************************)
(* C9  Message::digest with a 32-byte payload_digest field: for a          *)
(* non-empty payload it returns Ok(digest) exactly when SHA256(payload)    *)
(* equals the stored digest, and Err(FraudulentDigest) when they differ;   *)
(* for an empty payload it returns the stored digest unchanged.            *)
(***************************************************************************)
C9_Digest32 ==
    (IsDigest /\ Len(call.self.payload_digest) = DigestLen) =>
        /\ call.self.payload # <<>> =>
               /\ IsOk(call.out) <=>
                      AsRef(Sha256(call.self.payload)) = call.self.payload_digest
               /\ IsOk(call.out) => AsRef(call.out.val) = call.self.payload_digest
               /\ AsRef(Sha256(call.self.payload)) # call.self.payload_digest
                      => call.out = Err("FraudulentDigest")
        /\ call.self.payload = <<>> =>
               /\ IsOk(call.out)
               /\ AsRef(call.out.val) = call.self.payload_digest

\* A matching digest accepted, for a non-empty payload.
C9_Witness ==
    /\ IsDigest
    /\ Len(call.self.payload_digest) = DigestLen
    /\ call.self.payload # <<>>
    /\ IsOk(call.out)
    /\ AsRef(call.out.val) = call.self.payload_digest

(***************************************************************************)
(* C10  Message::digest with an empty payload_digest field returns         *)
(* SHA256(payload) for a non-empty payload and Err(DigestAndPayloadMissing)*)
(* for an empty one; with a field of any length other than 0 and 32 it     *)
(* returns Err(UnexpectedLengthDigest) whatever the payload.               *)
(***************************************************************************)
C10_DigestOtherLengths ==
    IsDigest =>
        /\ (Len(call.self.payload_digest) = 0 /\ call.self.payload # <<>>)
               => call.out = Ok(Sha256(call.self.payload))
        /\ (Len(call.self.payload_digest) = 0 /\ call.self.payload = <<>>)
               => call.out = Err("DigestAndPayloadMissing")
        /\ Len(call.self.payload_digest) \notin {0, DigestLen}
               => call.out = Err("UnexpectedLengthDigest")

\* A digest field of 33 bytes rejected although a payload is there.
C10_Witness ==
    /\ IsDigest
    /\ Len(call.self.payload_digest) = DigestLen + 1
    /\ call.self.payload # <<>>
    /\ call.out = Err("UnexpectedLengthDigest")

(***************************************************************************)
(* C11 as stated: a ParsedMessage obtained from Message::parse, after any  *)
(* sequence of open and open_in_place calls, has payload_digest =          *)
(* SHA256(payload) whenever its payload is not empty, and                  *)
(* into_message().parse() on it returns Ok with an equal ParsedMessage.    *)
(***************************************************************************)
C11_DigestInvariant ==
    msg.state = "parsed" =>
        /\ msg.parsed.payload # <<>>
               => msg.parsed.payload_digest = Sha256(msg.parsed.payload)
        /\ Parse(IntoMessage(msg.parsed)) = Ok(msg.parsed)

(***************************************************************************)
(* cashweb-auth-wrapper/src/lib.rs: AuthWrapper.                           *)
(***************************************************************************)
\* Signature::from_compact: r and s, each a 32-byte number below the curve
\* order; Err on any other length and on an r or s that is not below it.
SignatureFromCompact(signature) ==
    IF /\ Len(signature) = 2
       /\ signature[1] < CurveOrder
       /\ signature[2] < CurveOrder
    THEN Ok([r |-> signature[1], s |-> signature[2]])
    ELSE Err("InvalidSignature")

\* SignatureScheme::from_i32: the known schemes are 0 and 1.
SignatureSchemeFromI32(scheme) ==
    IF scheme \in {0, 1} THEN Some(scheme) ELSE None

\* AuthWrapper::parse
AuthWrapperParse(self) ==
    Try(MapErr(PublicKeyFromSlice(self.public_key),
               LAMBDA e : [e |-> "PublicKey", inner |-> e]),
        LAMBDA public_key :
    IF ~SignatureSchemeFromI32(self.scheme).some THEN Err([e |-> "UnsupportedScheme"])
    ELSE
      Try(MapErr(SignatureFromCompact(self.signature),
                 LAMBDA e : [e |-> "Signature", inner |-> e]),
          LAMBDA signature :
      Try(IF Len(self.payload_digest) = 0
          THEN IF self.payload = <<>> THEN Err([e |-> "DigestAndPayloadMissing"])
               ELSE Ok(Sha256(self.payload))
          ELSE IF Len(self.payload_digest) = DigestLen
          THEN IF AsRef(Sha256(self.payload)) # self.payload_digest
               THEN Err([e |-> "FraudulentDigest"])
               ELSE Unwrap(TryInto32(self.payload_digest), "parse: try_into")
          ELSE Err([e |-> "UnexpectedLengthDigest"]),
          LAMBDA payload_digest :
      Ok([public_key |-> public_key,
          scheme |-> SignatureSchemeFromI32(self.scheme).val,
          signature |-> signature,
          payload_digest |-> payload_digest,
          payload |-> self.payload]))))

(***************************************************************************)
(* Message::parse as a state machine: one call on a message whose fields   *)
(* are drawn from well-formed and malformed values, in every combination.  *)
(***************************************************************************)
\* The messages parsed.  Keys: a valid point, no bytes, the encoding of no
\* point.  Digest fields: none, the SHA-256 of a payload, another 32 bytes, 31
\* bytes.  payload_hmac fields of 0, 32 and 33 bytes.
WireMessages ==
    LET WireKeys == { Serialize(2), <<>>, <<2, 0>> }
        WirePayloads == { <<>>, <<1>>, <<0, 1>> }
        WireDigests(payload) ==
            { <<>>, AsRef(Sha256(payload)),
              AsRef((Sha256(payload) + 1) % (CurveOrder + 2)),
              [i \in 1..(DigestLen - 1) |-> i] }
        WireStamps == { None, Some([stamp_type |-> 1, stamp_outpoints |-> <<>>]) }
        WireHmacs == { <<>>, AsRef(0), AsRef(3), [i \in 1..(DigestLen + 1) |-> i] }
    IN  { [source_public_key |-> s, destination_public_key |-> d,
           received_time |-> t, payload_digest |-> h, stamp |-> stamp,
           scheme |-> scheme, salt |-> salt, payload_hmac |-> hmac,
           payload_size |-> size, payload |-> payload] :
          s \in WireKeys, d \in WireKeys, t \in {0, 1},
          h \in UNION { WireDigests(q) : q \in WirePayloads },
          stamp \in WireStamps, scheme \in {0, 1, 2}, salt \in { <<>>, <<7>> },
          hmac \in WireHmacs, size \in {0, 5}, payload \in WirePayloads }

InitParse ==
    /\ call = NoCall
    /\ msg = NoMsg
    /\ res = NoCall
    /\ wallet = NoWallet
    /\ crawl = NoCrawl

CallParse ==
    /\ call = NoCall
    /\ \E self \in WireMessages :
           call' = [op |-> "parse", self |-> self, out |-> Parse(self)]
    /\ UNCHANGED <<msg, res, wallet, crawl>>

\* The wrappers parsed: key, scheme and signature well-formed or not, and every
\* digest field of DigestFields with every payload of RawPayloads.
AuthWrappers ==
    { [public_key |-> k, scheme |-> scheme, signature |-> signature,
       payload_digest |-> h, payload |-> payload] :
      k \in { Serialize(2), <<>> }, scheme \in {0, 1, 2},
      signature \in { <<1, 2>>, <<>>, <<CurveOrder, 1>> },
      h \in DigestFields, payload \in RawPayloads }

CallAuthWrapperParse ==
    /\ call = NoCall
    /\ \E self \in AuthWrappers :
           call' = [op |-> "auth_wrapper_parse", self |-> self,
                    out |-> AuthWrapperParse(self)]
    /\ UNCHANGED <<msg, res, wallet, crawl>>

\* One call of create_shared_key: any public key, any 32-byte string as the
\* private key, any salt.
CallCreateSharedKey ==
    /\ call = NoCall
    /\ \E P \in Points, k \in Bytes32, salt \in Salts :
           /\ call' = [op |-> "create_shared_key", source_public_key |-> P,
                       private_key |-> k, salt |-> salt,
                       out |-> CreateSharedKey(P, k, salt)]
           /\ UNCHANGED <<msg, res, wallet, crawl>>

NextParse ==
    \/ CallParse
    \/ CallAuthWrapperParse
    \/ CallCreateSharedKey

SpecParse == InitParse /\ [][NextParse]_vars

C13_AuthWrapperDigestRule ==
    (/\ call.op = "auth_wrapper_parse"
     /\ IsOk(PublicKeyFromSlice(call.self.public_key))
     /\ SignatureSchemeFromI32(call.self.scheme).some
     /\ IsOk(SignatureFromCompact(call.self.signature)))
    => LET digest == Digest(BareMessage(call.self.payload_digest, call.self.payload))
       IN  IF IsOk(digest)
           THEN /\ IsOk(call.out)
                /\ call.out.val.payload_digest = digest.val
           ELSE call.out = Err([e |-> digest.err])

(***************************************************************************)
(* C14 as stated: derive_private_child never panics, for a Normal and for  *)
(* a Hardened child number: when I_L is not a valid scalar or I_L +        *)
(* parent_priv is zero mod n the caller gets an error value, and otherwise *)
(* the child scalar is (I_L + parent_priv) mod n with chain code I_R.      *)
(***************************************************************************)
C14_DerivePrivateChildNeverPanics ==
    call.op = "derive_private_child" =>
        LET n == call.path[1]
            hmac_result ==
                HmacSha512(<<call.chain_code>>,
                           IF n.kind = "Normal"
                           THEN Serialize(PublicKeyFromSecretKey(call.key))
                                    \o ToBeBytes(n.index)
                           ELSE <<0, call.key>> \o ToBeBytes(n.index))
            degenerate == \/ hmac_result.il \notin PrivateKeys
                          \/ (hmac_result.il + call.key) % CurveOrder = 0
        IN  /\ ~IsPanic(call.out)
            /\ degenerate => IsErr(call.out)
            /\ ~degenerate =>
                   call.out = Ok([private_key |->
                                      (hmac_result.il + call.key) % CurveOrder,
                                  chain_code |-> hmac_result.ir])

(***************************************************************************)
(* C15 as stated: derive_public_child on a Normal index returns            *)
(* Err(InvalidTweak) when I_L is not a valid scalar and when parent_pub +  *)
(* I_L*G is the point at infinity, and in every other case Ok with public  *)
(* key parent_pub + I_L*G and chain code I_R.                              *)
(***************************************************************************)
C15_DerivePublicChildInvalidTweak ==
    (call.op = "derive_public_child" /\ call.path[1].kind = "Normal") =>
        LET hmac_result ==
                HmacSha512(<<call.chain_code>>,
                           Serialize(call.key) \o ToBeBytes(call.path[1].index))
            sum == (call.key + hmac_result.il * Generator) % CurveOrder
        IN  IF hmac_result.il \notin PrivateKeys \/ sum = 0
            THEN call.out = Err("InvalidTweak")
            ELSE call.out = Ok([public_key |-> sum, chain_code |-> hmac_result.ir])

(***************************************************************************)
(* C16  derive_public_child with a Hardened child number returns           *)
(* Err(HardenedDeriveError) for every key and chain code, and              *)
(* derive_public_path returns that error whenever its path holds a         *)
(* Hardened element and the elements before the first one all derive.      *)
(***************************************************************************)
C16_HardenedRejection ==
    /\ (call.op = "derive_public_child" /\ call.path[1].kind = "Hardened")
           => call.out = Err("HardenedDeriveError")
    /\ call.op = "derive_public_path" =>
           \A i \in 1..Len(call.path) :
               (/\ call.path[i].kind = "Hardened"
                /\ \A j \in 1..(i - 1) : call.path[j].kind = "Normal"
                /\ IsOk(DerivePublicPath(NewMasterPublic(call.key, call.chain_code),
                                         SubSeq(call.path, 1, i - 1))))
               => call.out = Err("HardenedDeriveError")

\* A path whose second element is hardened and whose first element derives.
C16_Witness ==
    /\ call.op = "derive_public_path"
    /\ Len(call.path) = 2
    /\ call.path[1].kind = "Normal"
    /\ call.path[2].kind = "Hardened"
    /\ IsOk(DerivePublicChild(NewMasterPublic(call.key, call.chain_code),
                              call.path[1]))
    /\ call.out = Err("HardenedDeriveError")

(***************************************************************************)
(* C17  derive_private_path and derive_public_path are the left-to-right   *)
(* fold of derive_private_child and derive_public_child over the path: an  *)
(* empty path gives the master key unchanged, and a path p followed by i   *)
(* gives the child i of the key the path p gives, key and chain code       *)
(* threaded through, a failure on the way ending the derivation.           *)
(***************************************************************************)
C17_PathEqualsFold ==
    /\ call.op = "derive_private_path" =>
           LET master == NewMasterPrivate(call.key, call.chain_code)
               before == DerivePrivatePath(master, SubSeq(call.path, 1,
                                                          Len(call.path) - 1))
           IN  IF call.path = <<>> THEN call.out = Ok(master)
               ELSE call.out = IF IsOk(before)
                               THEN DerivePrivateChild(before.val,
                                                       call.path[Len(call.path)])
                               ELSE before
    /\ call.op = "derive_public_path" =>
           LET master == NewMasterPublic(call.key, call.chain_code)
               before == DerivePublicPath(master, SubSeq(call.path, 1,
                                                         Len(call.path) - 1))
           IN  IF call.path = <<>> THEN call.out = Ok(master)
               ELSE call.out = IF IsOk(before)
                               THEN DerivePublicChild(before.val,
                                                      call.path[Len(call.path)])
                               ELSE before

\* A private path of two elements: the child of the child of the master key.
C17_Witness ==
    /\ call.op = "derive_private_path"
    /\ Len(call.path) = 2
    /\ IsOk(call.out)
    /\ LET first == DerivePrivateChild(NewMasterPrivate(call.key, call.chain_code),
                                       call.path[1])
       IN  /\ IsOk(first)
           /\ call.out = DerivePrivateChild(first.val, call.path[2])
           /\ call.out # DerivePrivateChild(NewMasterPrivate(call.key,
                                                             call.chain_code),
                                            call.path[2])

(***************************************************************************)
(* C18  from_normal_index(i) and from_hardened_index(i) return Ok exactly  *)
(* when i is below the hardened bit (2^31) and Err(IndexError(i))          *)
(* otherwise; From<u32>(n) is Hardened(n - 2^31) when the top bit of n is  *)
(* set and Normal(n) otherwise; every ChildNumber the three constructors   *)
(* produce carries an index below the hardened bit.                        *)
(***************************************************************************)
C18_ChildNumberRange ==
    /\ call.op = "from_normal_index" =>
           call.out = IF call.index < HardenedBit
                      THEN Ok([kind |-> "Normal", index |-> call.index])
                      ELSE Err([e |-> "IndexError", index |-> call.index])
    /\ call.op = "from_hardened_index" =>
           call.out = IF call.index < HardenedBit
                      THEN Ok([kind |-> "Hardened", index |-> call.index])
                      ELSE Err([e |-> "IndexError", index |-> call.index])
    /\ call.op = "from" =>
           call.out = IF (call.index \div HardenedBit) % 2 = 1
                      THEN Ok([kind |-> "Hardened",
                               index |-> call.index - HardenedBit])
                      ELSE Ok([kind |-> "Normal", index |-> call.index])
    /\ (call.op \in {"from_normal_index", "from_hardened_index", "from"}
        /\ IsOk(call.out))
           => call.out.val.index \in 0..(HardenedBit - 1)

\* The largest word converted: hardened, with the largest index.
C18_Witness ==
    /\ call.op = "from"
    /\ call.index = 2 * HardenedBit - 1
    /\ call.out = Ok([kind |-> "Hardened", index |-> HardenedBit - 1])

(***************************************************************************)
(* C19  verify_stamp with stamp type None returns Err(NoneType) for every  *)
(* input, whatever the digest, the destination key and the outpoints: the  *)
(* payload key is not built, no key is derived and no transaction is       *)
(* decoded before it.                                                      *)
(***************************************************************************)
C19_NoneTypeFirst ==
    (call.op = "verify_stamp" /\ call.stamp_type = "None")
        => call.out = Err([e |-> "NoneType"])

\* Type None with a digest that is no valid scalar and a transaction that does
\* not decode.
C19_Witness ==
    /\ call.op = "verify_stamp"
    /\ call.stamp_type = "None"
    /\ IsErr(PrivateKeyFromSlice(call.payload_digest))
    /\ \E i \in 1..Len(call.stamp_outpoints) :
           IsErr(TransactionDecode(call.stamp_outpoints[i].stamp_tx))
    /\ call.out = Err([e |-> "NoneType"])

(***************************************************************************)
(* C20  verify_stamp with a stamp type other than None returns             *)
(* Err(DegenerateCombination) whenever the destination key is the negation *)
(* of the public key of the payload digest (their sum is the point at      *)
(* infinity), for every outpoint list, undecodable transactions included.  *)
(***************************************************************************)
C20_DegenerateCombination ==
    (/\ call.op = "verify_stamp"
     /\ call.stamp_type # "None"
     /\ call.payload_digest \in PrivateKeys
     /\ (call.destination_public_key + call.payload_digest * Generator)
            % CurveOrder = 0)
    => call.out = Err([e |-> "DegenerateCombination"])

\* A degenerate pair with a transaction that does not decode.
C20_Witness ==
    /\ call.op = "verify_stamp"
    /\ call.stamp_type # "None"
    /\ call.payload_digest \in PrivateKeys
    /\ (call.destination_public_key + call.payload_digest * Generator)
           % CurveOrder = 0
    /\ \E i \in 1..Len(call.stamp_outpoints) :
           IsErr(TransactionDecode(call.stamp_outpoints[i].stamp_tx))
    /\ call.out = Err([e |-> "DegenerateCombination"])

(***************************************************************************)
(* The checks of verify_stamp on one claimed output, stated per position:  *)
(* entry i of the list (from 1) and its j-th vout (from 1); position       *)
(* <<i, 0>> stands for the decoding of entry i.                            *)
(***************************************************************************)
OutputCheck(outpoints, h, D, i, j) ==
    LET tx == TransactionDecode(outpoints[i].stamp_tx).val
        vout == outpoints[i].vouts[j]
        script == tx.outputs[vout + 1].script
        derived == StampAddress(h, D, i - 1, vout)
    IN  IF ~(vout < Len(tx.outputs)) THEN Err([e |-> "MissingOutput"])
        ELSE IF ~(/\ Len(script) = 25
                  /\ SubSeq(script, 1, 3) = <<OP_DUP, OP_HASH160, OP_PUSHBYTES_20>>
                  /\ SubSeq(script, 24, 25) = <<OP_EQUALVERIFY, OP_CHECKSIG>>)
             THEN Err([e |-> "NotP2PKH"])
        ELSE IF derived # Ok(SubSeq(script, 4, 23))
             THEN Err([e |-> "UnexpectedAddress",
                       actual |-> IF IsOk(derived) THEN derived.val ELSE <<>>,
                       expected |-> SubSeq(script, 4, 23)])
        ELSE Ok(TRUE)

FailingPositions(outpoints, h, D) ==
    { p \in UNION { {i} \X (0..Len(outpoints[i].vouts)) : i \in 1..Len(outpoints) } :
        LET decoded == TransactionDecode(outpoints[p[1]].stamp_tx)
        IN  IF p[2] = 0 THEN IsErr(decoded)
            ELSE IsOk(decoded) /\ IsErr(OutputCheck(outpoints, h, D, p[1], p[2])) }

\* What the claim makes verify_stamp return once its loop is entered.
FirstFailure(outpoints, h, D) ==
    LET failing == FailingPositions(outpoints, h, D)
        first == CHOOSE p \in failing :
                     \A q \in failing :
                         p[1] < q[1] \/ (p[1] = q[1] /\ p[2] <= q[2])
    IN  IF failing = {} THEN Ok(DecodedTransactions(outpoints))
        ELSE IF first[2] = 0
             THEN Err([e |-> "Decode",
                       inner |-> TransactionDecode(outpoints[first[1]].stamp_tx).err])
        ELSE OutputCheck(outpoints, h, D, first[1], first[2])

\* The loop over the outpoints is entered: the type is not None and the master
\* key and its [44, 145] child exist.
EntersLoop ==
    /\ IsVerify
    /\ LET s == PrivateKeyFromSlice(call.payload_digest)
           combined_key == Combine(call.destination_public_key,
                                   PublicKeyFromSecretKey(s.val))
       IN  /\ IsOk(s)
           /\ IsOk(combined_key)
           /\ IsOk(DerivePublicPath(NewMasterPublic(combined_key.val,
                                                    call.payload_digest),
                                    StampPath))

(***************************************************************************)
(* C21 as stated: once the loop of verify_stamp is entered, the call       *)
(* returns the error of the first failing position in list order, where    *)
(* for each claimed vout a vout not below the output count gives           *)
(* MissingOutput, otherwise a script that is not the 25-byte P2PKH pattern *)
(* gives NotP2PKH, otherwise a hash that differs from the derived one      *)
(* gives UnexpectedAddress with both hashes, and an entry that does not    *)
(* decode gives Decode once all vouts of the entries before it passed; Ok  *)
(* with the decoded transactions when no position fails.                   *)
(***************************************************************************)
C21_PerOutputChecksInOrder ==
    EntersLoop =>
        call.out = FirstFailure(call.stamp_outpoints, call.payload_digest,
                                call.destination_public_key)

(***************************************************************************)
(* C21 for the calls that return: the same statement, with a panic of      *)
(* verify_stamp possible only at the derivation of an entry's or an        *)
(* output's key.                                                           *)
(***************************************************************************)
C21_PerOutputChecksInOrderUnlessPanic ==
    EntersLoop =>
        IF IsPanic(call.out)
        THEN call.out.at \in {"verify_stamp: derive_public_child(tx_num)",
                              "verify_stamp: derive_public_child(vout)",
                              "derive_public_child: PrivateKey::from_slice"}
        ELSE call.out = FirstFailure(call.stamp_outpoints, call.payload_digest,
                                     call.destination_public_key)

\* The second entry fails with UnexpectedAddress after the first entry passed
\* with a claimed output.
C21_Witness ==
    /\ EntersLoop
    /\ Len(call.stamp_outpoints) = 2
    /\ call.stamp_outpoints[1].vouts # <<>>
    /\ IsErr(call.out)
    /\ call.out.err.e = "UnexpectedAddress"
    /\ FailingPositions(call.stamp_outpoints, call.payload_digest,
                        call.destination_public_key) = {<<2, 1>>}

(***************************************************************************)
(* C22 as stated: after a successful open_in_place the payload field of    *)
(* the message is the plaintext, that is the decrypted bytes without their *)
(* padding, and the Payload returned is the decoding of that plaintext.    *)
(***************************************************************************)
C22_OpenInPlaceLeavesPlaintext ==
    (res.op = "open_in_place" /\ IsOk(res.out)) =>
        LET plaintext == DecryptVec(CipherKey(ReceiverSharedKey.val),
                                    CipherIv(ReceiverSharedKey.val),
                                    res.self.payload)
        IN  /\ IsOk(plaintext)
            /\ msg.parsed.payload = plaintext.val
            /\ PayloadDecode(plaintext.val) = Ok(res.out.val.payload)

(***************************************************************************)
(* C23  Shared-key symmetry: for every key pair (a, A = a*G) and (b, B =   *)
(* b*G) and every salt, create_shared_key(A, b, salt) and                  *)
(* create_shared_key(B, a, salt) are the same result, and where a*b*G is a *)
(* point of the curve (always, on a group of prime order) that result is   *)
(* Ok(HMAC-SHA256(key = serialize(a*b*G), message = salt)).                *)
(***************************************************************************)
C23_SharedKeySymmetry ==
    (call.op = "create_shared_key" /\ call.private_key \in PrivateKeys) =>
        \A a \in PrivateKeys :
            PublicKeyFromSecretKey(a) = call.source_public_key =>
                LET b == call.private_key
                    B == PublicKeyFromSecretKey(b)
                    abG == (a * b * Generator) % CurveOrder
                IN  /\ call.out = CreateSharedKey(B, a, call.salt)
                    /\ abG # 0 =>
                           call.out = Ok(HmacSha256(Serialize(abG), call.salt))

\* Two different key pairs and a non-empty salt: the receiver's call returns a
\* key, and the source key is not the receiver's own.
C23_Witness ==
    /\ call.op = "create_shared_key"
    /\ call.private_key \in PrivateKeys
    /\ call.source_public_key # PublicKeyFromSecretKey(call.private_key)
    /\ call.salt # <<>>
    /\ IsOk(call.out)
    /\ \E a \in PrivateKeys :
           /\ PublicKeyFromSecretKey(a) = call.source_public_key
           /\ call.out = CreateSharedKey(PublicKeyFromSecretKey(call.private_key),
                                         a, call.salt)

(***************************************************************************)
(* The codecs of cashweb-bitcoin as a state machine: a byte string is      *)
(* decoded as a transaction, and a decoded transaction is encoded into a   *)
(* buffer; a u64 is encoded as a VarInt, and a byte string decoded as one. *)
(***************************************************************************)
MaxTxItems == 2

CodecInputs ==
    { FundingInput,
      [outpoint |-> [tx_id |-> [i \in 1..32 |-> i], vout |-> 1],
       script |-> <<1, 2, 3>>, sequence |-> 2147483647] }

\* Outputs with a P2PKH script, an empty script and a script of 253 bytes, the
\* shortest whose length takes a three-byte VarInt.
CodecOutputs ==
    { [value |-> 546, script |-> P2pkhScript(Hash160(<<0>>))],
      [value |-> 0, script |-> <<>>],
      [value |-> 2147483647, script |-> [i \in 1..253 |-> i % 256]] }

CodecTxs ==
    { [version |-> v, inputs |-> ins, outputs |-> outs, lock_time |-> l] :
        v \in {1, 2147483647}, l \in {0, 65536},
        ins \in SeqsUpTo(CodecInputs, MaxTxItems),
        outs \in SeqsUpTo(CodecOutputs, MaxTxItems) }

\* The wire form of a transaction, and that form cut by one byte, followed by one
\* more byte, with its input count written on three bytes, and cut after the
\* input count.
WireTxs ==
    UNION { LET b == TransactionEncode(tx)
            IN  { b, Take(b, Len(b) - 1), Append(b, 0),
                  Take(b, 4) \o <<253, b[5], 0>> \o Drop(b, 5),
                  Take(b, 5) } : tx \in CodecTxs }
        \cup { <<>> }

\* An empty Vec<u8>, and mutable slices around the encoded length.
Buffers(tx) ==
    {EmptyVec}
        \cup { MutSlice(c) : c \in {0, TransactionEncodedLen(tx) - 1,
                                    TransactionEncodedLen(tx),
                                    TransactionEncodedLen(tx) + 1} }

U64Values ==
    { <<low>> \o high : low \in {0, 1, 252, 253, 255},
                        high \in [1..7 -> {0, 1, 255}] }

\* Byte strings of up to 9 bytes that start like a VarInt, alone and followed by
\* one more byte.
VarIntWires ==
    { <<>> } \cup
    { (<<first_byte>> \o rest) \o more :
        first_byte \in {0, 252, 253, 254, 255},
        rest \in SeqsUpTo({0, 1, 253}, 8),
        more \in {<<>>, <<7>>} }

InitCodec ==
    /\ call = NoCall
    /\ msg = NoMsg
    /\ res = NoCall
    /\ wallet = NoWallet
    /\ crawl = NoCrawl

CallTransactionDecode ==
    /\ call = NoCall
    /\ \E raw \in WireTxs :
           call' = [op |-> "transaction_decode", raw |-> raw,
                    out |-> TransactionDecode(raw)]
    /\ UNCHANGED <<msg, res, wallet, crawl>>

\* encoded_len and encode on the transaction of the last decode.
CallTransactionEncode ==
    /\ call.op = "transaction_decode"
    /\ IsOk(call.out)
    /\ res = NoCall
    /\ \E buf \in Buffers(call.out.val) :
         \E encoded \in {TransactionEncodeInto(call.out.val, buf)} :
           res' = [op |-> "transaction_encode", self |-> call.out.val,
                   encoded_len |-> TransactionEncodedLen(call.out.val),
                   buf |-> buf, out |-> encoded.out, after |-> encoded.buf]
    /\ UNCHANGED <<call, msg, wallet, crawl>>

CallVarIntEncode ==
    /\ call = NoCall
    /\ \E x \in U64Values :
           call' = [op |-> "var_int_encode", self |-> x,
                    encoded_len |-> VarIntEncodedLen(x),
                    out |-> VarIntEncode(x)]
    /\ UNCHANGED <<msg, res, wallet, crawl>>

CallVarIntDecode ==
    /\ call = NoCall
    /\ \E raw \in VarIntWires :
           call' = [op |-> "var_int_decode", raw |-> raw,
                    out |-> VarIntDecode(raw)]
    /\ UNCHANGED <<msg, res, wallet, crawl>>

NextCodec ==
    \/ CallTransactionDecode
    \/ CallTransactionEncode
    \/ CallVarIntEncode
    \/ CallVarIntDecode

SpecCodec == InitCodec /\ [][NextCodec]_vars

\* Transaction::decode accepts b and leaves no byte of it unread: decoding reads
\* forward only, so it reads all of b exactly when it rejects b without its last
\* byte.
ConsumesAll(b) ==
    /\ IsOk(TransactionDecode(b))
    /\ b # <<>>
    /\ ~IsOk(TransactionDecode(Take(b, Len(b) - 1)))

(***************************************************************************)
(* C24  Transaction codec round trip: for every byte string b that         *)
(* Transaction::decode accepts while consuming all of b, encoding the      *)
(* decoded transaction into an empty growable buffer returns Ok and yields *)
(* exactly b, and encoded_len() is the length of b; encode returns         *)
(* Err(InsufficientCapacity) and writes nothing when the remaining         *)
(* capacity of the buffer is below encoded_len().                          *)
(***************************************************************************)
C24_TransactionRoundTrip ==
    res.op = "transaction_encode" =>
        /\ (res.buf = EmptyVec /\ ConsumesAll(call.raw)) =>
               /\ res.out = Ok(TRUE)
               /\ res.after.written = call.raw
               /\ res.encoded_len = Len(call.raw)
        /\ res.buf.remaining < res.encoded_len =>
               /\ res.out = Err("InsufficientCapacity")
               /\ res.after = res.buf

\* A transaction with two inputs and two outputs, one of them with a script of
\* 253 bytes, comes back byte for byte.
C24_Witness ==
    /\ res.op = "transaction_encode"
    /\ res.buf = EmptyVec
    /\ ConsumesAll(call.raw)
    /\ Len(res.self.inputs) = 2
    /\ Len(res.self.outputs) = 2
    /\ \E i \in 1..2 : Len(res.self.outputs[i].script) = 253
    /\ res.after.written = call.raw

\* x <= y for two u64, compared from the most significant byte down.
RECURSIVE U64Leq(_, _)
U64Leq(x, y) ==
    IF x = <<>> THEN TRUE
    ELSE IF x[Len(x)] # y[Len(y)] THEN x[Len(x)] < y[Len(y)]
    ELSE U64Leq(Take(x, Len(x) - 1), Take(y, Len(y) - 1))

\* The length the claim gives the encoding of x: 1 up to 0xfc, 3 up to 0xffff,
\* 5 up to 0xffffffff, 9 above.
ClaimedVarIntLen(x) ==
    IF U64Leq(x, <<252, 0, 0, 0, 0, 0, 0, 0>>) THEN 1
    ELSE IF U64Leq(x, <<255, 255, 0, 0, 0, 0, 0, 0>>) THEN 3
    ELSE IF U64Leq(x, <<255, 255, 255, 255, 0, 0, 0, 0>>) THEN 5
    ELSE 9

(***************************************************************************)
(* C27  VarInt codec: for every u64 x, decoding the encoding of x gives x  *)
(* and consumes exactly encoded_len(x) bytes, with encoded_len 1 for       *)
(* x <= 0xfc, 3 for x <= 0xffff, 5 for x <= 0xffffffff and 9 otherwise;    *)
(* decode returns TooShort when fewer bytes remain than the prefix         *)
(* requires and NonMinimal for every 0xfd, 0xfe or 0xff-prefixed encoding  *)
(* whose value fits a shorter form, so that every accepted byte string is  *)
(* the encoding of its value.                                              *)
(***************************************************************************)
C27_VarIntCodec ==
    /\ call.op = "var_int_encode" =>
           /\ call.encoded_len = ClaimedVarIntLen(call.self)
           /\ Len(call.out) = call.encoded_len
           /\ \A more \in {<<>>, <<7>>, <<255, 0>>} :
                  VarIntDecode(call.out \o more)
                      = Ok([val |-> call.self, rest |-> more])
    /\ call.op = "var_int_decode" =>
           /\ call.raw = <<>> => call.out = Err("TooShort")
           /\ (call.raw # <<>> /\ call.raw[1] >= 253) =>
                  LET width == IF call.raw[1] = 253 THEN 2
                               ELSE IF call.raw[1] = 254 THEN 4 ELSE 8
                      value == SubSeq(call.raw, 2, 1 + width) \o Zeros(8 - width)
                  IN  IF Len(call.raw) - 1 < width THEN call.out = Err("TooShort")
                      ELSE IF ClaimedVarIntLen(value) < 1 + width
                      THEN call.out = Err("NonMinimal")
                      ELSE call.out = Ok([val |-> value,
                                          rest |-> Drop(call.raw, 1 + width)])
           /\ IsOk(call.out) =>
                  VarIntEncode(call.out.val.val) \o call.out.val.rest = call.raw

\* 0x10000, the smallest value of five bytes, is written fe 00 00 01 00 and read
\* back.
C27_Witness ==
    /\ call.op = "var_int_encode"
    /\ call.self = <<0, 0, 1, 0, 0, 0, 0, 0>>
    /\ call.out = <<254, 0, 0, 1, 0>>
    /\ VarIntDecode(call.out) = Ok([val |-> call.self, rest |-> <<>>])

(***************************************************************************)
(* C25  Frame on failure: a call of open leaves the parsed message as it   *)
(* was; a call of open_in_place that returns a Stamp, SharedKey or         *)
(* Authentication error leaves every field, the payload buffer included,   *)
(* as it was, and has not run the decryption: the payload is written only  *)
(* after authenticate has succeeded.                                       *)
(***************************************************************************)
C25_FrameOnFailure ==
    [][msg.state = "parsed" =>
           /\ res'.op = "open" => msg' = msg
           /\ (/\ res'.op = "open_in_place"
               /\ IsErr(res'.out)
               /\ res'.out.err.step \in {"Stamp", "SharedKey", "Authentication"})
              => /\ msg' = msg
                 /\ \A i \in 1..Len(res'.steps) : res'.steps[i] # "decrypt"]_vars

\* An open_in_place that fails the authentication on a message whose payload
\* decrypts: the message is the one the call was made on.
C25_Witness ==
    /\ res.op = "open_in_place"
    /\ res.out = AuthenticationErr
    /\ IsOk(StepDecrypt.out)
    /\ msg.state = "parsed"
    /\ msg.parsed = res.self
    /\ msg.parsed.payload # <<>>

\* A stamp that claims no output: every entry decodes and lists no vout.
Vacuous(outpoints) ==
    \A i \in 1..Len(outpoints) :
        /\ outpoints[i].vouts = <<>>
        /\ IsOk(TransactionDecode(outpoints[i].stamp_tx))

(***************************************************************************)
(* C26 as stated: for every stamp type other than None, every valid digest *)
(* and every destination key, verify_stamp returns Ok with the decoded     *)
(* transactions for a stamp that claims no output (an empty list, or       *)
(* entries that decode and have no vouts).  Stated for the calls that      *)
(* return, so that no panic of verify_stamp is what refutes it.            *)
(***************************************************************************)
C26_VacuousStampsVerify ==
    (/\ IsVerify
     /\ call.payload_digest \in PrivateKeys
     /\ call.destination_public_key \in Points
     /\ Vacuous(call.stamp_outpoints)
     /\ ~IsPanic(call.out))
    => call.out = Ok(DecodedTransactions(call.stamp_outpoints))

(***************************************************************************)
(* C26  For every stamp type other than None, every valid digest and every *)
(* destination key, verify_stamp on a stamp that claims no output returns  *)
(* Ok with the decoded transactions, whatever their outputs pay to,        *)
(* exactly when the master key, its [44, 145] child and the child of every *)
(* list position derive; otherwise it returns DegenerateCombination (the   *)
(* destination key is the negation of the digest's key) or panics on the   *)
(* unwrap of a derivation.                                                 *)
(***************************************************************************)
C26_VacuousStampsVerifyWhenKeysDerive ==
    (/\ IsVerify
     /\ call.payload_digest \in PrivateKeys
     /\ call.destination_public_key \in Points
     /\ Vacuous(call.stamp_outpoints))
    => IF StampKeysDerive(call.stamp_outpoints, call.payload_digest,
                          call.destination_public_key)
       THEN call.out = Ok(DecodedTransactions(call.stamp_outpoints))
       ELSE IF (call.destination_public_key
                    + call.payload_digest * Generator) % CurveOrder = 0
       THEN call.out = Err([e |-> "DegenerateCombination"])
       ELSE IsPanic(call.out)

\* Two transactions whose outputs pay to the keys of another digest verify,
\* with no vout listed, and come back decoded.
C26_Witness ==
    /\ IsVerify
    /\ Len(call.stamp_outpoints) = 2
    /\ Vacuous(call.stamp_outpoints)
    /\ IsOk(call.out)
    /\ Len(call.out.val) = 2
    /\ \E i \in 1..2 : call.out.val[i].outputs # <<>>

(***************************************************************************)
(* The payment wallet (cashweb-payments/src/wallet.rs): a map from an      *)
(* invoice key to the outputs expected for it.  add_outputs inserts and    *)
(* returns a future that removes the key after the timeout; recv_outputs   *)
(* removes the entry if the received outputs cover the expected ones.  The *)
(* map is a DashMap, whose insert, remove and remove_if each run under the *)
(* write lock of the key's shard, so each is one step.                     *)
(*                                                                         *)
(* Two fields are bookkeeping of the model and not data of the program:    *)
(* `id' numbers the add_outputs calls, so that an entry and an expiry      *)
(* future can be told to stem from one call, and `oks' counts the Ok       *)
(* results of recv_outputs per call.                                       *)
(***************************************************************************)
MaxInsertions == 2

WalletKeys == {"invoice_a", "invoice_b"}

WalletOutputs == {"output_x", "output_y"}

OutputVecs == SeqsUpTo(WalletOutputs, Cardinality(WalletOutputs))

Absent == [state |-> "absent"]

EmptyPending == [key \in WalletKeys |-> Absent]

Insert(pending, key, value) == [pending EXCEPT ![key] = value]

Remove(pending, key) == [pending EXCEPT ![key] = Absent]

CheckSubset(expected_outputs, outputs) ==
    \A i \in 1..Len(expected_outputs) :
        \E j \in 1..Len(outputs) : outputs[j] = expected_outputs[i]

RemoveIfKeepsEntry(pending, key, outputs) ==
    IF pending[key] # Absent /\ CheckSubset(pending[key].outputs, outputs)
    THEN [removed |-> pending[key], map |-> pending]
    ELSE [removed |-> Absent, map |-> pending]

RemoveIf(pending, key, outputs) ==
    IF pending[key] # Absent /\ CheckSubset(pending[key].outputs, outputs)
    THEN [removed |-> pending[key], map |-> Remove(pending, key)]
    ELSE [removed |-> Absent, map |-> pending]

RecvOutputs(pending, key, outputs) ==
    LET removed == RemoveIf(pending, key, outputs)
    IN  [out     |-> IF removed.removed # Absent THEN Ok("()")
                     ELSE Err("InvalidOutputs"),
         pending |-> removed.map,
         removed |-> removed.removed]

InitWallet ==
    /\ call = NoCall
    /\ msg = NoMsg
    /\ res = NoCall
    /\ crawl = NoCrawl
    /\ wallet = [state    |-> "live",
                 pending  |-> EmptyPending,
                 futures  |-> {},
                 inserted |-> 0,
                 oks      |-> [id \in {} |-> 0],
                 last     |-> NoCall]

\* add_outputs(key, outputs): insert, and hand back the expiry future.
CallAddOutputs ==
    /\ wallet.state = "live"
    /\ wallet.inserted < MaxInsertions
    /\ \E key \in WalletKeys, outputs \in OutputVecs :
           LET id == wallet.inserted + 1
           IN  wallet' = [wallet EXCEPT
                   !.pending  = Insert(@, key, [outputs |-> outputs, id |-> id]),
                   !.futures  = @ \cup {[key_inner |-> key, id |-> id]},
                   !.inserted = id,
                   !.oks      = [i \in 1..id |-> IF i = id THEN 0 ELSE @[i]],
                   !.last     = [op |-> "add_outputs", key |-> key, id |-> id,
                                 before |-> wallet.pending]]
    /\ UNCHANGED <<call, msg, res, crawl>>

\* recv_outputs(key, outputs), by any caller.
CallRecvOutputs ==
    /\ wallet.state = "live"
    /\ \E key \in WalletKeys, outputs \in OutputVecs :
           LET recv == RecvOutputs(wallet.pending, key, outputs)
           IN  wallet' = [wallet EXCEPT
                   !.pending = recv.pending,
                   !.oks     = IF IsOk(recv.out)
                               THEN [@ EXCEPT ![recv.removed.id] = @ + 1]
                               ELSE @,
                   !.last    = [op |-> "recv_outputs", key |-> key,
                                outputs |-> outputs, out |-> recv.out,
                                before |-> wallet.pending]]
    /\ UNCHANGED <<call, msg, res, crawl>>

\* The future returned by an add_outputs call completes: the delay is over and
\* it removes its key.
ExpiryFuture ==
    /\ wallet.state = "live"
    /\ \E future \in wallet.futures :
           wallet' = [wallet EXCEPT
               !.pending = Remove(@, future.key_inner),
               !.futures = @ \ {future},
               !.last    = [op |-> "expire", key |-> future.key_inner,
                            id |-> future.id, before |-> wallet.pending]]
    /\ UNCHANGED <<call, msg, res, crawl>>

NextWallet ==
    \/ CallAddOutputs
    \/ CallRecvOutputs
    \/ ExpiryFuture

SpecWallet == InitWallet /\ [][NextWallet]_vars

Covers(entry, outputs) ==
    \A output \in Range(entry.outputs) : output \in Range(outputs)

C29_ExpiryIsPerInsertion ==
    wallet.last.op # "none" =>
        LET last == wallet.last
        IN  \A key \in WalletKeys :
                LET entry == last.before[key]
                IN  entry # Absent /\ wallet.pending[key] # entry =>
                        /\ last.key = key
                        /\ \/ last.op = "recv_outputs" /\ IsOk(last.out)
                           \/ last.op = "add_outputs"
                           \/ last.op = "expire" /\ last.id = entry.id

\* What the code does: a completed expiry future removes whatever entry its
\* key has at that moment, and nothing else.
C29_ExpiryRemovesByKey ==
    wallet.last.op = "expire" =>
        wallet.pending = Remove(wallet.last.before, wallet.last.key)

\* The future of an earlier call completes while the entry of a later call
\* for the same key is pending, and the later entry is gone.
C29_Witness ==
    /\ wallet.last.op = "expire"
    /\ wallet.last.before[wallet.last.key] # Absent
    /\ wallet.last.before[wallet.last.key].id > wallet.last.id
    /\ wallet.pending[wallet.last.key] = Absent
    /\ \E future \in wallet.futures :
           future.id = wallet.last.before[wallet.last.key].id

(***************************************************************************)
(* The keyserver crawl (cashweb-keyserver-client/src/manager/mod.rs and    *)
(* manager/services.rs; the loop of manager.rs is the same).  A keyserver  *)
(* answers GetPeers with its peer list or with an error; `peers' and       *)
(* `failing' are the keyservers' side, fixed during a crawl.  A peer's url *)
(* is a string that may or may not parse as a Uri.                         *)
(***************************************************************************)
Uris == {"http://ks1", "http://ks2", "http://ks3"}

Urls == Uris \cup {"not a uri"}

PeerGraphs == [Uris -> SUBSET Urls]

\* peer.url.parse::<Uri>()
ParseUri(url) == IF url \in Uris THEN Ok(url) ELSE Err("InvalidUri")

\* The inner client's call for (uri, GetPeers).
GetPeers(peers, failing, uri) ==
    IF uri \in failing THEN Err("GetPeersError") ELSE Ok(peers[uri])

\* aggregate_peers: the peer lists of all answers, flattened.  The order and
\* the repetitions of the flattened list are dropped, as the caller collects
\* it into a HashSet.
AggregatePeers(oks) == UNION oks

\* The SampleRequest service: ask every sampled URI, split answers from
\* errors, fail if nothing answered.
SampleCall(peers, failing, sample) ==
    LET responses == [uri \in sample |-> GetPeers(peers, failing, uri)]
        oks       == {responses[uri].val : uri \in {u \in sample : IsOk(responses[u])}}
        errors    == {<<uri, responses[uri].err>> : uri \in {u \in sample : ~IsOk(responses[u])}}
    IN  IF \A uri \in sample : ~IsOk(responses[uri])
        THEN Err([Sample |-> errors])
        ELSE Ok([response |-> AggregatePeers(oks), errors |-> errors])

\* The rest of the loop body, as intended: the new URIs become the next
\* round's found_uris.
AggregateUrisAssigningOuter(found_uris, total, response) ==
    LET parsed == {url \in response : IsOk(ParseUri(url))}
        new    == parsed \ total
    IN  [found_uris |-> new, total |-> total \cup new]

\* The rest of the loop body, as written: `let mut found_uris' declares a
\* second variable for the parsed URIs, and the assignment of the new URIs
\* goes to it; the found_uris that the loop tests keeps its value.
AggregateUris(found_uris, total, response) ==
    LET inner_found_uris == {url \in response : IsOk(ParseUri(url))}
        new              == inner_found_uris \ total
    IN  [found_uris |-> found_uris, total |-> total \cup new]

\* The orders in which a HashSet can be iterated into a Vec.
Orders(set) ==
    {order \in [1..Cardinality(set) -> set] : Range(order) = set}

InitCrawl ==
    /\ call = NoCall
    /\ msg = NoMsg
    /\ res = NoCall
    /\ wallet = NoWallet
    /\ \E uris \in SUBSET Uris, peers \in PeerGraphs,
          failing \in {{}} \cup {{uri} : uri \in Uris} :
           crawl = [pc           |-> "while",
                    uris         |-> uris,
                    peers        |-> peers,
                    failing      |-> failing,
                    found_uris   |-> uris,
                    total        |-> uris,
                    total_errors |-> {},
                    sample       |-> {},
                    rounds       |-> 0,
                    out          |-> NoCall]

\* while !found_uris.is_empty(): the sampler drains found_uris into the
\* request.
CrawlSample ==
    /\ crawl.pc = "while"
    /\ crawl.found_uris # {}
    /\ crawl' = [crawl EXCEPT !.pc = "await",
                              !.sample = crawl.found_uris,
                              !.found_uris = {}]
    /\ UNCHANGED <<call, msg, res, wallet>>

\* The sample request completes: `?' returns its error, otherwise the errors
\* and the URIs are aggregated and the loop condition is tested again.
CrawlRound ==
    /\ crawl.pc = "await"
    /\ LET sampled == SampleCall(crawl.peers, crawl.failing, crawl.sample)
       IN  IF ~IsOk(sampled)
           THEN crawl' = [crawl EXCEPT !.pc = "done", !.sample = {},
                                       !.out = sampled]
           ELSE LET next == AggregateUris(crawl.found_uris, crawl.total,
                                          sampled.val.response)
                IN  crawl' = [crawl EXCEPT
                        !.pc           = "while",
                        !.sample       = {},
                        !.rounds       = @ + 1,
                        !.total_errors = @ \cup sampled.val.errors,
                        !.found_uris   = next.found_uris,
                        !.total        = next.total]
    /\ UNCHANGED <<call, msg, res, wallet>>

\* The loop is left: total becomes the response.
CrawlReturn ==
    /\ crawl.pc = "while"
    /\ crawl.found_uris = {}
    /\ \E order \in Orders(crawl.total) :
           crawl' = [crawl EXCEPT
               !.pc  = "done",
               !.out = Ok([response |-> [peers |-> order],
                           errors   |-> crawl.total_errors])]
    /\ UNCHANGED <<call, msg, res, wallet>>

NextCrawl ==
    \/ CrawlSample
    \/ CrawlRound
    \/ CrawlReturn

\* Every request completes, and the task running the crawl is scheduled.
SpecCrawl == InitCrawl /\ [][NextCrawl]_vars /\ WF_vars(NextCrawl)

RECURSIVE ReachableFrom(_, _)
ReachableFrom(peers, seen) ==
    LET next == seen \cup {url \in UNION {peers[uri] : uri \in seen} :
                               IsOk(ParseUri(url))}
    IN  IF next = seen THEN seen ELSE ReachableFrom(peers, next)

ListedOnce(list) == Cardinality(Range(list)) = Len(list)

\* C30 (first part): crawl_peers terminates on every finite peer graph.
C30_CrawlTerminates == <>(crawl.pc = "done")

\* C30: when no request failed, the response of crawl_peers holds every URI
\* that is reachable from the manager's URIs by following the peer lists
\* transitively, each one once.
C30_CrawlFindsAllReachable ==
    crawl.pc = "done" /\ IsOk(crawl.out) /\ crawl.out.val.errors = {} =>
        /\ ReachableFrom(crawl.peers, crawl.uris)
               \subseteq Range(crawl.out.val.response.peers)
        /\ ListedOnce(crawl.out.val.response.peers)

\* What the code does: one round.  The response holds the manager's URIs and
\* the parsable peers of those of them that answered, each once, and the loop
\* body ran at most once.
C30_CrawlIsOneRound ==
    crawl.pc = "done" /\ IsOk(crawl.out) =>
        /\ Range(crawl.out.val.response.peers) =
               crawl.uris \cup
               {url \in UNION {crawl.peers[uri] : uri \in crawl.uris \ crawl.failing} :
                    IsOk(ParseUri(url))}
        /\ ListedOnce(crawl.out.val.response.peers)
        /\ crawl.rounds <= 1

\* No keyserver fails, a keyserver two steps from the manager's URIs is
\* missing from the response.
C30_Witness ==
    /\ crawl.pc = "done"
    /\ IsOk(crawl.out)
    /\ crawl.failing = {}
    /\ crawl.rounds = 1
    /\ \E uri \in ReachableFrom(crawl.peers, crawl.uris) :
           uri \notin Range(crawl.out.val.response.peers)

====
